---------------------------- MODULE Spec2Model ----------------------------
(***************************************************************************)
(* Time Zone Overlap Finder: the overlap engine (OverlapCalculator) and    *)
(* the zone conversion service (TimeZoneConverter) it is built on.         *)
(*                                                                         *)
(* Instants are whole minutes counted from 2024-01-01T00:00Z.  A luxon     *)
(* DateTime is the record [valid, ts, zone]: its instant and the zone its  *)
(* wall-clock fields are rendered in.  A JS Date is [valid, time].         *)
(* A call either returns (type "normal") or throws (type "throw"); an      *)
(* error message is the sequence of its words.                             *)
(***************************************************************************)
EXTENDS Integers, Sequences, FiniteSets, TLC

VARIABLES
    cityA,           \* argument cityA of calculateOverlap
    cityB,           \* argument cityB
    workingHoursA,   \* argument workingHoursA, Undefined when omitted
    workingHoursB,   \* argument workingHoursB, Undefined when omitted
    date,            \* argument date (a JS Date)
    pc,              \* "call" before the call, "done" after it
    result,          \* what the call returned or threw; Pending before
    rangeA,          \* local rangeA of calculateOverlap, <<>> while unset
    rangeB,          \* local rangeB, <<>> while unset
    caught,          \* the error the catch clause received, <<>> if none
    conversions,     \* converter conversions entered during the call
    overlap,         \* argument overlap of generateSuggestions
    suggestions,     \* what generateSuggestions returned; the argument of
                     \* findLargestOverlap
    largest,         \* what findLargestOverlap returned; Pending before
    callTime,        \* argument time of categorizeMeetingTime and convertToUTC
    callTimezone,    \* argument timezone of the same calls
    callWorkingHours,
                     \* argument workingHours of categorizeMeetingTime
    quality,         \* what categorizeMeetingTime returned; Pending before
    timeInUTC,       \* completion of convertToUTC(time, timezone)
    roundTripTime,   \* completion of convertFromUTC(timeInUTC, timezone)
    zoneValid,       \* what isValidTimezone(timezone) returned; Pending before
    timeFromUTC,     \* completion of convertFromUTC(time, timezone)
    offset,          \* the date argument and the completion of
                     \* getTimezoneOffset(timezone, date)
    formatted,       \* what formatMeetingSuggestion returned for each of
                     \* the suggestions; Pending before
    customHoursEnabled,
                     \* AppState.customHoursEnabled
    error,           \* the error AppContent displays, Null if none
    inputA,          \* startTime, endTime and error of the WorkingHoursInput
                     \* of city A
    inputB,          \* the same of city B
    lastCall         \* the arguments of the calculateOverlap call of the
                     \* last run of the calculation effect, Null if it made none

\* the state of a calculateOverlap call
calculatorVars == <<cityA, cityB, workingHoursA, workingHoursB, date, result,
                    rangeA, rangeB, caught, conversions>>

\* the state of the MeetingSuggester calls
suggesterVars == <<overlap, suggestions, largest>>

\* the state of a direct categorizeMeetingTime or converter call
directCallVars == <<callTime, callTimezone, callWorkingHours, quality,
                    timeInUTC, roundTripTime>>

\* the state of a direct isValidTimezone, convertFromUTC or getTimezoneOffset call
checkVars == <<zoneValid, timeFromUTC, offset>>

\* the state of AppContent and its two WorkingHoursInputs that the calculator
\* and suggester calls do not hold
appVars == <<customHoursEnabled, error, inputA, inputB, lastCall>>

\* what only the converter checks, the formatter and the application touch
furtherVars == <<checkVars, formatted, appVars>>

vars == <<calculatorVars, pc, suggesterVars, directCallVars, furtherVars>>

---------------------------------------------------------------------------
(* Bounds of the model *)

\* how many entries of HourList the working-hour bounds are drawn from
MaxHourValues == 7

\* how many 12-hour steps after each anchor instant the date argument takes
MaxDateSteps == 1

\* the longest overlap window handed to generateSuggestions, in quarter hours
MaxWindowQuarters == 9

\* how many 75-minute steps after the first one the window starts take
MaxWindowStarts == 3

\* the longest list handed to findLargestOverlap
MaxListLen == 3

\* how many 10-minute steps of 2024-01-15 categorizeMeetingTime is asked about
MaxTimeSteps == 143

\* how many 15-minute steps after each anchor the converter is asked about
MaxConverterSteps == 64

\* how many 30-minute steps after 2024-01-15T00:00Z are formatted
MaxFormatSteps == 47

---------------------------------------------------------------------------
(* Values *)

Undefined == [undefined |-> TRUE]

Pending == [type |-> "pending"]

Normal(v) == [type |-> "normal", value |-> v]

Throw(msg) == [type |-> "throw", message |-> msg]

Max(a, b) == IF a > b THEN a ELSE b

Min(a, b) == IF a < b THEN a ELSE b

\* F applied to the value of v: an argument or a const is evaluated once,
\* where it is written, and its value is what the rest of the code reads
With(v, F(_)) == CHOOSE r \in {F(x) : x \in {v}} : TRUE

\* String.prototype.includes on an error message, by whole words
includes(message, word) == \E i \in 1..Len(message) : message[i] = word

InvalidDateTime == [valid |-> FALSE, ts |-> 0, zone |-> "UTC"]

---------------------------------------------------------------------------
(* The zone rules the conversions consume (IANA data for 2024) *)

ValidZones ==
    {"America/New_York", "Europe/London", "Asia/Tokyo", "Asia/Kolkata",
     "Asia/Kathmandu"}

\* dt.offset: the signed UTC offset in minutes of a zone at an instant.
\* New York is on daylight time from 2024-03-10T07:00Z to 2024-11-03T06:00Z,
\* London from 2024-03-31T01:00Z to 2024-10-27T01:00Z.
getTimezoneOffset(timezone, ts) ==
    CASE timezone = "America/New_York" ->
             IF ts >= 99780 /\ ts < 442440 THEN -240 ELSE -300
      [] timezone = "Europe/London" ->
             IF ts >= 129660 /\ ts < 432060 THEN 60 ELSE 0
      [] timezone = "Asia/Tokyo" -> 540
      [] timezone = "Asia/Kolkata" -> 330
      [] timezone = "Asia/Kathmandu" -> 345
      [] timezone = "UTC" -> 0
      [] OTHER -> 0

\* wall-clock minutes (from 2024-01-01T00:00 local) a DateTime shows
localMinutes(dt) == dt.ts + getTimezoneOffset(dt.zone, dt.ts)

civilDay(dt) == localMinutes(dt) \div 1440

hourOf(dt) == (localMinutes(dt) % 1440) \div 60

minuteOf(dt) == localMinutes(dt) % 60

\* luxon's resolution of wall-clock minutes to an instant of a zone, from a
\* guessed offset o: a wall-clock time inside a spring-forward gap moves
\* forward by the gap, an ambiguous one keeps the guessed offset if it fits.
fixOffset(localTS, o, timezone) ==
    LET utcGuess == localTS - o
        o2 == getTimezoneOffset(timezone, utcGuess)
        utcGuess2 == utcGuess - (o2 - o)
        o3 == getTimezoneOffset(timezone, utcGuess2)
    IN  IF o = o2 THEN utcGuess
        ELSE IF o2 = o3 THEN utcGuess2
        ELSE localTS - Min(o2, o3)

\* DateTime.fromJSDate(date).setZone(timezone)
fromJSDateInZone(d, timezone) ==
    IF d.valid THEN [valid |-> TRUE, ts |-> d.time, zone |-> timezone]
    ELSE InvalidDateTime

\* dt.startOf('day')
startOfDay(dt) ==
    With(dt, LAMBDA t :
        IF ~t.valid THEN t
        ELSE [t EXCEPT !.ts = fixOffset(civilDay(t) * 1440,
                                        getTimezoneOffset(t.zone, t.ts), t.zone)])

\* dt.set({ hour, minute: 0, second: 0, millisecond: 0 }); an hour past 23
\* rolls over into the following day
setHour(dt, hour) ==
    With(dt, LAMBDA t :
        IF ~t.valid THEN t
        ELSE [t EXCEPT !.ts = fixOffset(civilDay(t) * 1440 + hour * 60,
                                        getTimezoneOffset(t.zone, t.ts), t.zone)])

\* dt.plus({ days }): the same wall-clock time, days civil days later
plusDays(dt, days) ==
    With(dt, LAMBDA t :
        IF ~t.valid THEN t
        ELSE [t EXCEPT !.ts = fixOffset(localMinutes(t) + days * 1440,
                                        getTimezoneOffset(t.zone, t.ts), t.zone)])


---------------------------------------------------------------------------
(* TimeZoneConverter *)

\* dt.zoneName after setZone(timezone): luxon reads "utc" in any
\* capitalisation as the zone named UTC, an IANA identifier names itself
zoneName(timezone) == IF timezone = "utc" THEN "UTC" ELSE timezone

\* setZone(timezone) gives a valid DateTime
zoneIsValid(timezone) == zoneName(timezone) \in ValidZones \cup {"UTC"}

\* true iff luxon resolves the identifier to a zone of that very name; no
\* path throws
isValidTimezone(timezone) ==
    /\ timezone # ""
    /\ zoneIsValid(timezone)
    /\ zoneName(timezone) = timezone

\* time.setZone(timezone, { keepLocalTime: true }): the same wall-clock
\* fields read in the given zone
setZoneKeepLocalTime(time, timezone) ==
    With(time, LAMBDA t :
        IF t.zone = timezone THEN t
        ELSE [valid |-> TRUE,
              ts |-> fixOffset(localMinutes(t),
                               getTimezoneOffset(timezone, t.ts), timezone),
              zone |-> timezone])

\* convertToUTC relabelling the wall-clock fields as UTC
\* (setZone('UTC', { keepLocalTime: true }) for toUTC()), so the offset is lost
convertToUTCKeepLocalTime(time, timezone) ==
    With(time, LAMBDA t :
        IF ~isValidTimezone(timezone)
        THEN Throw(<<"Invalid", "timezone", "identifier", ":", timezone>>)
        ELSE IF ~t.valid
        THEN Throw(<<"Invalid", "DateTime", "object", "provided", "for", "conversion">>)
        ELSE With(setZoneKeepLocalTime(t, timezone), LAMBDA timeInZone :
                 Normal([valid |-> TRUE, ts |-> localMinutes(timeInZone), zone |-> "UTC"])))

\* convertToUTC keeping the instant of its input whatever zone it carries
\* (setZone(timezone) without keepLocalTime)
convertToUTCSameInstant(time, timezone) ==
    With(time, LAMBDA t :
        IF ~isValidTimezone(timezone)
        THEN Throw(<<"Invalid", "timezone", "identifier", ":", timezone>>)
        ELSE IF ~t.valid
        THEN Throw(<<"Invalid", "DateTime", "object", "provided", "for", "conversion">>)
        ELSE Normal([valid |-> TRUE, ts |-> t.ts, zone |-> "UTC"]))

\* convertToUTC looking at the DateTime ahead of the zone
convertToUTCTimeFirst(time, timezone) ==
    With(time, LAMBDA t :
        IF ~t.valid
        THEN Throw(<<"Invalid", "DateTime", "object", "provided", "for", "conversion">>)
        ELSE IF ~isValidTimezone(timezone)
        THEN Throw(<<"Invalid", "timezone", "identifier", ":", timezone>>)
        ELSE With(setZoneKeepLocalTime(t, timezone), LAMBDA timeInZone :
                 Normal([valid |-> TRUE, ts |-> timeInZone.ts, zone |-> "UTC"])))

convertToUTC(time, timezone) ==
    With(time, LAMBDA t :
        IF ~isValidTimezone(timezone)
        THEN Throw(<<"Invalid", "timezone", "identifier", ":", timezone>>)
        ELSE IF ~t.valid
        THEN Throw(<<"Invalid", "DateTime", "object", "provided", "for", "conversion">>)
        ELSE With(setZoneKeepLocalTime(t, timezone), LAMBDA timeInZone :
                 Normal([valid |-> TRUE, ts |-> timeInZone.ts, zone |-> "UTC"])))

\* convertFromUTC returning the UTC rendering, the setZone(timezone) forgotten
convertFromUTCNoSetZone(time, timezone) ==
    With(time, LAMBDA t :
        IF ~isValidTimezone(timezone)
        THEN Throw(<<"Invalid", "timezone", "identifier", ":", timezone>>)
        ELSE IF ~t.valid
        THEN Throw(<<"Invalid", "DateTime", "object", "provided", "for", "conversion">>)
        ELSE Normal([valid |-> TRUE, ts |-> t.ts, zone |-> "UTC"]))

\* convertFromUTC relabelling the UTC wall-clock fields as local ones
\* (setZone(timezone, { keepLocalTime: true }))
convertFromUTCKeepLocalTime(time, timezone) ==
    With(time, LAMBDA t :
        IF ~isValidTimezone(timezone)
        THEN Throw(<<"Invalid", "timezone", "identifier", ":", timezone>>)
        ELSE IF ~t.valid
        THEN Throw(<<"Invalid", "DateTime", "object", "provided", "for", "conversion">>)
        ELSE Normal(setZoneKeepLocalTime(t, timezone)))

convertFromUTC(time, timezone) ==
    With(time, LAMBDA t :
        IF ~isValidTimezone(timezone)
        THEN Throw(<<"Invalid", "timezone", "identifier", ":", timezone>>)
        ELSE IF ~t.valid
        THEN Throw(<<"Invalid", "DateTime", "object", "provided", "for", "conversion">>)
        ELSE Normal([valid |-> TRUE, ts |-> t.ts, zone |-> timezone]))

\* converter.getTimezoneOffset(timezone, date): the zone's offset at the date,
\* or at the current instant now when the date is omitted
timezoneOffset(timezone, d, now) ==
    IF ~isValidTimezone(timezone)
    THEN Throw(<<"Invalid", "timezone", "identifier", ":", timezone>>)
    ELSE With(fromJSDateInZone(IF d = Undefined THEN now ELSE d, timezone),
              LAMBDA dt :
                  IF ~dt.valid
                  THEN Throw(<<"Failed", "to", "get", "timezone", "offset", "for",
                               ":", timezone>>)
                  ELSE Normal(getTimezoneOffset(timezone, dt.ts)))

---------------------------------------------------------------------------
(* OverlapCalculator *)

\* a default of 9 AM to 5 PM
DefaultWorkingHoursNineToFive == [start |-> 9, end |-> 17]

\* the default value of the workingHoursA and workingHoursB parameters
DefaultWorkingHours == [start |-> 9, end |-> 18]

defaultParameter(workingHours) ==
    IF workingHours = Undefined THEN DefaultWorkingHours ELSE workingHours

isValidWorkingHours(hours) ==
    /\ hours.start >= 0
    /\ hours.start < 24
    /\ hours.end >= 0
    /\ hours.end <= 24
    /\ hours.start # hours.end

\* validateInputs with the working hours checked ahead of the zones
validateInputsHoursFirst(cA, cB, hoursA, hoursB) ==
    IF ~isValidWorkingHours(hoursA)
    THEN Throw(<<"Invalid", "working", "hours", "for", "City", "A">>)
    ELSE IF ~isValidWorkingHours(hoursB)
    THEN Throw(<<"Invalid", "working", "hours", "for", "City", "B">>)
    ELSE IF cA.timezone = ""
    THEN Throw(<<"Invalid", "city", "A", ":", "Missing", "timezone", "information">>)
    ELSE IF cB.timezone = ""
    THEN Throw(<<"Invalid", "city", "B", ":", "Missing", "timezone", "information">>)
    ELSE IF ~isValidTimezone(cA.timezone)
    THEN Throw(<<"Unable", "to", "determine", "timezone", "for", cA.name, ".",
                 "Please", "try", "another", "city", ".">>)
    ELSE IF ~isValidTimezone(cB.timezone)
    THEN Throw(<<"Unable", "to", "determine", "timezone", "for", cB.name, ".",
                 "Please", "try", "another", "city", ".">>)
    ELSE Normal(TRUE)

\* the checks ahead of the try block, in their order; Normal(TRUE) when all pass
validateInputs(cA, cB, hoursA, hoursB) ==
    IF cA.timezone = ""
    THEN Throw(<<"Invalid", "city", "A", ":", "Missing", "timezone", "information">>)
    ELSE IF cB.timezone = ""
    THEN Throw(<<"Invalid", "city", "B", ":", "Missing", "timezone", "information">>)
    ELSE IF ~isValidTimezone(cA.timezone)
    THEN Throw(<<"Unable", "to", "determine", "timezone", "for", cA.name, ".",
                 "Please", "try", "another", "city", ".">>)
    ELSE IF ~isValidTimezone(cB.timezone)
    THEN Throw(<<"Unable", "to", "determine", "timezone", "for", cB.name, ".",
                 "Please", "try", "another", "city", ".">>)
    ELSE IF ~isValidWorkingHours(hoursA)
    THEN Throw(<<"Invalid", "working", "hours", "for", "City", "A">>)
    ELSE IF ~isValidWorkingHours(hoursB)
    THEN Throw(<<"Invalid", "working", "hours", "for", "City", "B">>)
    ELSE Normal(TRUE)

\* the civil start and end of the working hours, before conversion
workingHoursStart(workingHours, timezone, d) ==
    setHour(startOfDay(fromJSDateInZone(d, timezone)), workingHours.start)

\* workingHoursEnd without the step to the next day
workingHoursEndSameDay(workingHours, timezone, d) ==
    setHour(startOfDay(fromJSDateInZone(d, timezone)), workingHours.end)

workingHoursEnd(workingHours, timezone, d) ==
    With(setHour(startOfDay(fromJSDateInZone(d, timezone)), workingHours.end),
         LAMBDA end :
            IF workingHours.end <= workingHours.start THEN plusDays(end, 1) ELSE end)

\* [completion, conversions]: the range or the error, and the conversions entered
workingHoursToUTC(workingHours, timezone, d) ==
    With(convertToUTC(workingHoursStart(workingHours, timezone, d), timezone),
         LAMBDA startUTC :
    IF startUTC.type = "throw"
    THEN [completion |-> startUTC, conversions |-> 1]
    ELSE
    With(convertToUTC(workingHoursEnd(workingHours, timezone, d), timezone),
         LAMBDA endUTC :
    IF endUTC.type = "throw"
    THEN [completion |-> endUTC, conversions |-> 2]
    ELSE [completion |-> Normal([start |-> startUTC.value, end |-> endUTC.value]),
          conversions |-> 2]))

\* calculateIntersection dropping only intersections that run backwards
\* (> for >=), so that ranges touching at an endpoint give an empty window
calculateIntersectionTouching(rA, rB) ==
    LET intersectionStart == IF rA.start.ts > rB.start.ts THEN rA.start ELSE rB.start
        intersectionEnd == IF rA.end.ts < rB.end.ts THEN rA.end ELSE rB.end
    IN  IF intersectionStart.ts > intersectionEnd.ts THEN <<>>
        ELSE <<[start |-> intersectionStart, end |-> intersectionEnd]>>

\* an intersection that always starts where the first range starts
calculateIntersectionFirstStart(rA, rB) ==
    LET intersectionStart == rA.start
        intersectionEnd == IF rA.end.ts < rB.end.ts THEN rA.end ELSE rB.end
    IN  IF intersectionStart.ts >= intersectionEnd.ts THEN <<>>
        ELSE <<[start |-> intersectionStart, end |-> intersectionEnd]>>

\* the span from the earlier start to the later end in place of the
\* intersection
calculateIntersectionHull(rA, rB) ==
    LET hullStart == IF rA.start.ts < rB.start.ts THEN rA.start ELSE rB.start
        hullEnd == IF rA.end.ts > rB.end.ts THEN rA.end ELSE rB.end
    IN  IF hullStart.ts >= hullEnd.ts THEN <<>>
        ELSE <<[start |-> hullStart, end |-> hullEnd]>>

\* DateTimes compare by their instants; <<>> stands for null
calculateIntersection(rA, rB) ==
    LET intersectionStart == IF rA.start.ts > rB.start.ts THEN rA.start ELSE rB.start
        intersectionEnd == IF rA.end.ts < rB.end.ts THEN rA.end ELSE rB.end
    IN  IF intersectionStart.ts >= intersectionEnd.ts THEN <<>>
        ELSE <<[start |-> intersectionStart, end |-> intersectionEnd]>>

\* the difference taken the wrong way round: start.diff(end)
durationMinutesReversed(intersection) == intersection.start.ts - intersection.end.ts

\* intersection.end.diff(intersection.start, 'minutes').minutes
durationMinutes(intersection) == intersection.end.ts - intersection.start.ts

\* a catch clause that also lets messages with the word Invalid through
catchClauseInvalidToo(message) ==
    IF includes(message, "timezone") \/ includes(message, "Invalid")
    THEN Throw(message)
    ELSE Throw(<<"Failed", "to", "calculate", "overlap", ".", "Please", "check",
                 "your", "inputs", "and", "try", "again", ".">>)

\* the catch clause: what the caller sees for an error thrown in the try block
catchClause(message) ==
    IF includes(message, "timezone") THEN Throw(message)
    ELSE Throw(<<"Failed", "to", "calculate", "overlap", ".", "Please", "check",
                 "your", "inputs", "and", "try", "again", ".">>)

\* the rest of the try block once an intersection is found: the four
\* conversions back, in their order, and the result built from them
overlapResult(cA, cB, rA, rB, i, n) ==
    With(<<convertFromUTC(i.start, cA.timezone),
           convertFromUTC(i.end, cA.timezone),
           convertFromUTC(i.start, cB.timezone),
           convertFromUTC(i.end, cB.timezone)>>,
         LAMBDA back :
    LET failed == {k \in 1..4 : back[k].type = "throw"}
        first == CHOOSE k \in failed : \A j \in failed : k <= j
    IN  IF failed # {}
        THEN [completion |-> back[first],
              rangeA |-> <<rA>>, rangeB |-> <<rB>>, conversions |-> n + first]
        ELSE [completion |-> Normal(
                  [hasOverlap |-> TRUE,
                   overlapInUTC |-> i,
                   overlapInCityA |-> [start |-> back[1].value, end |-> back[2].value],
                   overlapInCityB |-> [start |-> back[3].value, end |-> back[4].value],
                   durationMinutes |-> durationMinutes(i)]),
              rangeA |-> <<rA>>, rangeB |-> <<rB>>, conversions |-> n + 4])

\* the try block: [completion, rangeA, rangeB, conversions]
tryBlock(cA, cB, hoursA, hoursB, d) ==
    With(workingHoursToUTC(hoursA, cA.timezone, d), LAMBDA a :
    IF a.completion.type = "throw"
    THEN [completion |-> a.completion, rangeA |-> <<>>, rangeB |-> <<>>,
          conversions |-> a.conversions]
    ELSE
    With(workingHoursToUTC(hoursB, cB.timezone, d), LAMBDA b :
    IF b.completion.type = "throw"
    THEN [completion |-> b.completion, rangeA |-> <<a.completion.value>>,
          rangeB |-> <<>>, conversions |-> a.conversions + b.conversions]
    ELSE
    With(calculateIntersection(a.completion.value, b.completion.value),
         LAMBDA intersection :
    LET rA == a.completion.value
        rB == b.completion.value
        n == a.conversions + b.conversions
    IN  IF intersection = <<>>
        THEN [completion |-> Normal([hasOverlap |-> FALSE]),
              rangeA |-> <<rA>>, rangeB |-> <<rB>>, conversions |-> n]
        ELSE overlapResult(cA, cB, rA, rB, intersection[1], n))))

\* the whole call: [completion, rangeA, rangeB, caught, conversions]
calculateOverlap(cA, cB, wA, wB, d) ==
    LET hoursA == defaultParameter(wA)
        hoursB == defaultParameter(wB)
        checked == validateInputs(cA, cB, hoursA, hoursB)
    IN  IF checked.type = "throw"
        THEN [completion |-> checked, rangeA |-> <<>>, rangeB |-> <<>>,
              caught |-> <<>>, conversions |-> 0]
        ELSE
        With(tryBlock(cA, cB, hoursA, hoursB, d), LAMBDA body :
            IF body.completion.type = "throw"
            THEN [completion |-> catchClause(body.completion.message),
                  rangeA |-> body.rangeA, rangeB |-> body.rangeB,
                  caught |-> <<body.completion.message>>,
                  conversions |-> body.conversions]
            ELSE [completion |-> body.completion,
                  rangeA |-> body.rangeA, rangeB |-> body.rangeB,
                  caught |-> <<>>, conversions |-> body.conversions])

---------------------------------------------------------------------------
(* MeetingSuggester *)

Null == [null |-> TRUE]

PerfectTime == "Perfect Time"

AcceptableTime == "Acceptable Time"

NotRecommendedTime == "Not Recommended"

\* time.setZone(timezone): the same instant rendered in the zone; a zone
\* luxon does not know makes the DateTime invalid
setZone(dt, tz) ==
    With(dt, LAMBDA t :
        IF ~t.valid \/ ~zoneIsValid(tz) THEN [t EXCEPT !.valid = FALSE]
        ELSE [t EXCEPT !.zone = zoneName(tz)])

\* dt.plus({ minutes }): the instant that many minutes later, in the same zone
plusMinutes(dt, minutes) ==
    With(dt, LAMBDA t : IF ~t.valid THEN t ELSE [t EXCEPT !.ts = t.ts + minutes])

\* a < b on DateTimes: by instant, and false when either is invalid (NaN)
lessThan(a, b) == a.valid /\ b.valid /\ a.ts < b.ts

\* the test with the end of the working hours still inside them (> for >=)
outsideWorkingHoursEndInclusive(timeInMinutes, startMinutes, endMinutes) ==
    timeInMinutes < startMinutes \/ timeInMinutes > endMinutes

\* timeInMinutes < startMinutes || timeInMinutes >= endMinutes
outsideWorkingHours(timeInMinutes, startMinutes, endMinutes) ==
    timeInMinutes < startMinutes \/ timeInMinutes >= endMinutes

\* the middle third closed at its upper end (<= 2/3 for < 2/3)
inMiddleThirdClosed(timeInMinutes, startMinutes, totalMinutes) ==
    /\ 3 * (timeInMinutes - startMinutes) >= totalMinutes
    /\ 3 * (timeInMinutes - startMinutes) <= 2 * totalMinutes

\* positionInDay >= 1/3 && positionInDay < 2/3, where positionInDay is
\* (timeInMinutes - startMinutes) / totalMinutes with totalMinutes > 0.  The
\* quotient of two whole numbers of minutes of a day, correctly rounded,
\* compares with the doubles 1/3 and 2/3 as the exact fractions do.
inMiddleThird(timeInMinutes, startMinutes, totalMinutes) ==
    /\ 3 * (timeInMinutes - startMinutes) >= totalMinutes
    /\ 3 * (timeInMinutes - startMinutes) < 2 * totalMinutes

\* categorizeMeetingTime with working hours that end on the next day when
\* end <= start, as workingHoursToUTC reads them
categorizeMeetingTimeSpanning(t, wh, tz) ==
    With(setZone(t, tz), LAMBDA localTime :
    IF ~localTime.valid THEN AcceptableTime
    ELSE
    LET spans == wh.end <= wh.start
        startMinutes == wh.start * 60
        endMinutes == IF spans THEN wh.end * 60 + 1440 ELSE wh.end * 60
        minutes == hourOf(localTime) * 60 + minuteOf(localTime)
        timeInMinutes == IF spans /\ minutes < startMinutes
                         THEN minutes + 1440 ELSE minutes
        totalMinutes == endMinutes - startMinutes
    IN  IF outsideWorkingHours(timeInMinutes, startMinutes, endMinutes)
        THEN NotRecommendedTime
        ELSE IF inMiddleThird(timeInMinutes, startMinutes, totalMinutes)
        THEN PerfectTime
        ELSE AcceptableTime)

\* an invalid localTime has hour and minute NaN: every comparison is false
\* and the call falls through to its last return
categorizeMeetingTime(t, wh, tz) ==
    With(setZone(t, tz), LAMBDA localTime :
    IF ~localTime.valid THEN AcceptableTime
    ELSE
    LET timeInMinutes == hourOf(localTime) * 60 + minuteOf(localTime)
        startMinutes == wh.start * 60
        endMinutes == wh.end * 60
        totalMinutes == endMinutes - startMinutes
    IN  IF outsideWorkingHours(timeInMinutes, startMinutes, endMinutes)
        THEN NotRecommendedTime
        ELSE IF inMiddleThird(timeInMinutes, startMinutes, totalMinutes)
        THEN PerfectTime
        ELSE AcceptableTime)

qualityOrder == <<PerfectTime, AcceptableTime, NotRecommendedTime>>

\* qualityOrder.indexOf(q), counted from 1
indexOf(q) == CHOOSE i \in 1..Len(qualityOrder) : qualityOrder[i] = q

\* the better of the two (Math.min for Math.max)
combineQualitiesBetter(qualityA, qualityB) ==
    qualityOrder[Min(indexOf(qualityA), indexOf(qualityB))]

combineQualities(qualityA, qualityB) ==
    qualityOrder[Max(indexOf(qualityA), indexOf(qualityB))]

\* a suggestion that always lasts the full hour
suggestionFullHour(o, cA, cB, hA, hB, currentTimeA, currentTimeB) ==
    [timeInCityA |-> currentTimeA,
     timeInCityB |-> currentTimeB,
     quality |-> combineQualities(categorizeMeetingTime(currentTimeA, hA, cA.timezone),
                                  categorizeMeetingTime(currentTimeB, hB, cB.timezone)),
     durationMinutes |-> 60]

\* a suggestion that claims the whole rest of the window, without the cap
suggestionUncapped(o, cA, cB, hA, hB, currentTimeA, currentTimeB) ==
    [timeInCityA |-> currentTimeA,
     timeInCityB |-> currentTimeB,
     quality |-> combineQualities(categorizeMeetingTime(currentTimeA, hA, cA.timezone),
                                  categorizeMeetingTime(currentTimeB, hB, cB.timezone)),
     durationMinutes |-> o.overlapInCityA.end.ts - currentTimeA.ts]

\* the body of the loop up to the push: the suggestion for the current slot
suggestion(o, cA, cB, hA, hB, currentTimeA, currentTimeB) ==
    [timeInCityA |-> currentTimeA,
     timeInCityB |-> currentTimeB,
     quality |-> combineQualities(categorizeMeetingTime(currentTimeA, hA, cA.timezone),
                                  categorizeMeetingTime(currentTimeB, hB, cB.timezone)),
     durationMinutes |-> Min(o.overlapInCityA.end.ts - currentTimeA.ts, 60)]

\* the minutes between two suggestions
intervalMinutes == 30

\* the loop condition letting a slot start at the end of the window
loopConditionInclusive(currentTimeA, end) ==
    currentTimeA.valid /\ end.valid /\ currentTimeA.ts <= end.ts

\* currentTimeA < overlap.overlapInCityA.end
loopCondition(currentTimeA, end) == lessThan(currentTimeA, end)

\* currentTimeA = currentTimeA.plus({ minutes: intervalMinutes })
nextTimeInCityA(currentTimeA) == plusMinutes(currentTimeA, intervalMinutes)

\* city B moved on by an hour while city A moves by intervalMinutes
nextTimeInCityBHourly(currentTimeB) == plusMinutes(currentTimeB, 60)

\* currentTimeB = currentTimeB.plus({ minutes: intervalMinutes })
nextTimeInCityB(currentTimeB) == plusMinutes(currentTimeB, intervalMinutes)

RECURSIVE whileLoop(_, _, _, _, _, _)
\* the while loop from the state <<currentTimeA, currentTimeB, suggestions>>
whileLoop(o, cA, cB, hA, hB, state) ==
    With(state, LAMBDA s :
        IF ~loopCondition(s[1], o.overlapInCityA.end) THEN s[3]
        ELSE whileLoop(o, cA, cB, hA, hB,
                 <<nextTimeInCityA(s[1]),
                   nextTimeInCityB(s[2]),
                   Append(s[3], suggestion(o, cA, cB, hA, hB, s[1], s[2]))>>))

\* generateSuggestions trusting the windows whatever hasOverlap says
generateSuggestionsIgnoresFlag(o, cA, cB, hA, hB) ==
    IF \/ "overlapInCityA" \notin DOMAIN o
       \/ "overlapInCityB" \notin DOMAIN o
    THEN <<>>
    ELSE whileLoop(o, cA, cB, hA, hB,
                   <<o.overlapInCityA.start, o.overlapInCityB.start, <<>>>>)

\* a window the result does not carry is a field the record does not have
generateSuggestions(o, cA, cB, hA, hB) ==
    IF \/ ~o.hasOverlap
       \/ "overlapInCityA" \notin DOMAIN o
       \/ "overlapInCityB" \notin DOMAIN o
    THEN <<>>
    ELSE whileLoop(o, cA, cB, hA, hB,
                   <<o.overlapInCityA.start, o.overlapInCityB.start, <<>>>>)

\* the decimal digit n as a character
Digit(n) == <<"0", "1", "2", "3", "4", "5", "6", "7", "8", "9">>[n + 1]

\* a number below 100 in two characters, padded with a zero
padStart2(n) == <<Digit(n \div 10), Digit(n % 10)>>

\* the hour as is, on the 24-hour clock
hour12Unconverted(hour) == hour

\* luxon's token hh: the hour on the 12-hour clock, 12 for midnight and noon
hour12(hour) == IF hour % 12 = 0 THEN 12 ELSE hour % 12

\* luxon's token a: the meridiem of the en locale
meridiem(hour) == IF hour < 12 THEN "AM" ELSE "PM"

\* dt.toFormat('hh:mm a'), character by character but for the marker
toFormat(dt) ==
    IF ~dt.valid THEN <<"Invalid DateTime">>
    ELSE padStart2(hour12(hourOf(dt))) \o <<":">> \o padStart2(minuteOf(dt))
            \o <<" ", meridiem(hourOf(dt))>>

\* the character U+2194 between the two halves
Arrow == "<->"

\* formatMeetingSuggestion(suggestion, cityA, cityB)
formatMeetingSuggestion(s, cA, cB) ==
    toFormat(s.timeInCityA) \o <<" ", cA.name, " ", Arrow, " ">>
        \o toFormat(s.timeInCityB) \o <<" ", cB.name>>

\* the reducer keeping the later of two equally long suggestions (>= for >)
reducerKeepsLater(previous, current) ==
    IF current.durationMinutes >= previous.durationMinutes THEN current ELSE previous

\* (largest, current) => current.durationMinutes > largest.durationMinutes
\*                          ? current : largest
reducer(previous, current) ==
    IF current.durationMinutes > previous.durationMinutes THEN current ELSE previous

RECURSIVE reduce(_, _)
\* list.reduce(reducer) over the first k elements of a non-empty list
reduce(list, k) ==
    IF k = 1 THEN list[1]
    ELSE With(reduce(list, k - 1), LAMBDA previous : reducer(previous, list[k]))

\* the last suggestion in place of the longest
findLargestOverlapLast(list) ==
    IF Len(list) = 0 THEN Null ELSE list[Len(list)]

\* suggester.findLargestOverlap(suggestions)
findLargestOverlap(list) ==
    IF Len(list) = 0 THEN Null ELSE reduce(list, Len(list))

---------------------------------------------------------------------------
(* The calls the model makes *)

NewYork == [name |-> "New York", timezone |-> "America/New_York"]

London == [name |-> "London", timezone |-> "Europe/London"]

Tokyo == [name |-> "Tokyo", timezone |-> "Asia/Tokyo"]

Mumbai == [name |-> "Mumbai", timezone |-> "Asia/Kolkata"]

\* a city whose zone identifier luxon does not know, and one with none
Atlantis == [name |-> "Atlantis", timezone |-> "Invalid/Timezone"]

Nowhere == [name |-> "Nowhere", timezone |-> ""]

ValidCities == {NewYork, London, Tokyo, Mumbai}

Cities == ValidCities \cup {Atlantis, Nowhere}

HourList == <<9, 18, 13, 22, 0, 24, -1, 25, 12, 23, 1, 6>>

HourValues == {HourList[i] : i \in 1..Min(MaxHourValues, Len(HourList))}

\* ranges the repository's tests call calculateOverlap with
TestRanges ==
    {[start |-> 10, end |-> 17], [start |-> 22, end |-> 6],
     [start |-> 9, end |-> 10], [start |-> 14, end |-> 15]}

\* every pair of hour values, well-formed or not, the tests' ranges and the
\* omitted argument
HoursArguments ==
    [start : HourValues, end : HourValues] \cup TestRanges \cup {Undefined}

\* the few ranges tried together with an unusable city
FewHoursArguments ==
    {Undefined, DefaultWorkingHours, [start |-> 9, end |-> 9],
     [start |-> -1, end |-> 18], [start |-> 22, end |-> 9]}

InvalidDate == [valid |-> FALSE, time |-> 0]

\* 2024-06-15T00:00Z (summer time in New York and London) and
\* 2024-03-10T00:00Z (the day New York springs forward), each followed by
\* the instants 12 hours apart
AnchorInstants == {239040, 99360}

Dates ==
    {[valid |-> TRUE, time |-> a + k * 720] :
        a \in AnchorInstants, k \in 0..MaxDateSteps} \cup {InvalidDate}

\* no MeetingSuggester call is under way
NoSuggesterCall ==
    /\ overlap = Undefined
    /\ suggestions = <<>>
    /\ largest = Pending

\* no categorizeMeetingTime or converter call is under way
NoDirectCall ==
    /\ callTime = Undefined
    /\ callTimezone = Undefined
    /\ callWorkingHours = Undefined
    /\ quality = Pending
    /\ timeInUTC = Pending
    /\ roundTripTime = Pending

\* no converter check is under way, nothing is formatted, no application runs
NoFurtherCall ==
    /\ zoneValid = Pending
    /\ timeFromUTC = Pending
    /\ offset = Pending
    /\ formatted = Pending
    /\ customHoursEnabled = Undefined
    /\ error = Undefined
    /\ inputA = Undefined
    /\ inputB = Undefined
    /\ lastCall = Undefined

\* nothing has been computed by calculateOverlap
NotCalculated ==
    /\ result = Pending
    /\ rangeA = <<>>
    /\ rangeB = <<>>
    /\ caught = <<>>
    /\ conversions = 0

Init ==
    /\ \/ /\ cityA \in ValidCities
          /\ cityB \in ValidCities
          /\ workingHoursA \in HoursArguments
          /\ workingHoursB \in HoursArguments
          /\ date \in Dates
       \/ /\ cityA \in Cities
          /\ cityB \in Cities
          /\ workingHoursA \in FewHoursArguments
          /\ workingHoursB \in FewHoursArguments
          /\ date \in {[valid |-> TRUE, time |-> 239040], InvalidDate}
    /\ pc = "call"
    /\ NotCalculated
    /\ NoFurtherCall
    /\ NoSuggesterCall
    /\ NoDirectCall

\* calculator.calculateOverlap(cityA, cityB, workingHoursA, workingHoursB, date)
Calculate ==
    /\ pc = "call"
    /\ \E r \in {calculateOverlap(cityA, cityB, workingHoursA, workingHoursB, date)} :
           /\ result' = r.completion
           /\ rangeA' = r.rangeA
           /\ rangeB' = r.rangeB
           /\ caught' = r.caught
           /\ conversions' = r.conversions
    /\ UNCHANGED furtherVars
    /\ pc' = "done"
    /\ UNCHANGED <<cityA, cityB, workingHoursA, workingHoursB, date>>
    /\ UNCHANGED <<suggesterVars, directCallVars>>

Next == Calculate

Spec == Init /\ [][Next]_vars

---------------------------------------------------------------------------
(* The calls of the MeetingSuggester *)

\* the ranges the suggester is called with
SuggesterHours == TestRanges \cup {DefaultWorkingHours}

\* DateTime.fromObject / DateTime.utc of the tests: an instant in a zone
at(ts, zone) == [valid |-> TRUE, ts |-> ts, zone |-> zone]

between(start, end, zone) == [start |-> at(start, zone), end |-> at(end, zone)]

\* an OverlapResult built by hand as the tests build theirs: one window of
\* the given length rendered in UTC and in the two zones
overlapOf(start, minutes, zoneA, zoneB) ==
    [hasOverlap |-> TRUE,
     overlapInUTC |-> between(start, start + minutes, "UTC"),
     overlapInCityA |-> between(start, start + minutes, zoneA),
     overlapInCityB |-> between(start, start + minutes, zoneB),
     durationMinutes |-> minutes]

\* 2024-01-15T14:00Z, the start of the tests' windows, and later starts
WindowStarts == {21000 + 75 * j : j \in 0..MaxWindowStarts}

WindowLengths == {15 * k : k \in 1..MaxWindowQuarters}

\* a record without some of the keys of r
without(r, keys) == [k \in DOMAIN r \ keys |-> r[k]]

\* the overlap arguments: hand-built windows, { hasOverlap: false }, results
\* that lack a local window, and one that carries windows but reports none
OverlapArguments(zoneA, zoneB) ==
    {overlapOf(start, minutes, zoneA, zoneB) :
        start \in WindowStarts, minutes \in WindowLengths}
    \cup {[hasOverlap |-> FALSE],
          without(overlapOf(21000, 120, zoneA, zoneB), {"overlapInCityA"}),
          without(overlapOf(21000, 120, zoneA, zoneB), {"overlapInCityB"}),
          [overlapOf(21000, 120, zoneA, zoneB) EXCEPT !.hasOverlap = FALSE]}

\* the i-th element of a hand-built list of suggestions
suggestionAt(i, minutes) ==
    [timeInCityA |-> at(21000 + 30 * i, NewYork.timezone),
     timeInCityB |-> at(21000 + 30 * i, London.timezone),
     quality |-> AcceptableTime,
     durationMinutes |-> minutes]

\* the lists of at most MaxListLen suggestions lasting 15, 30 or 60 minutes
SuggestionLists ==
    UNION {{[i \in 1..n |-> suggestionAt(i, durations[i])] :
               durations \in [1..n -> {15, 30, 60}]} : n \in 0..MaxListLen}

\* a calculateOverlap call whose result goes on to the suggester, a direct
\* generateSuggestions call, or a direct findLargestOverlap call
SuggesterInit ==
    /\ cityA \in ValidCities
    /\ cityB \in ValidCities
    /\ workingHoursA \in SuggesterHours
    /\ workingHoursB \in SuggesterHours
    /\ \/ /\ pc = "call"
          /\ date \in {[valid |-> TRUE, time |-> 239040],
                       [valid |-> TRUE, time |-> 100080]}
          /\ NoSuggesterCall
       \/ /\ pc = "generate"
          /\ date = Undefined
          /\ overlap \in OverlapArguments(cityA.timezone, cityB.timezone)
          /\ suggestions = <<>>
          /\ largest = Pending
       \/ /\ pc = "suggested"
          /\ cityA = NewYork /\ cityB = London
          /\ workingHoursA = DefaultWorkingHours
          /\ workingHoursB = DefaultWorkingHours
          /\ date = Undefined
          /\ overlap = Undefined
          /\ suggestions \in SuggestionLists
          /\ largest = Pending
    /\ NotCalculated
    /\ NoFurtherCall
    /\ NoDirectCall

\* overlap.hasOverlap ? suggester.generateSuggestions(overlap, ...) : []
\* on the result calculateOverlap returned
SuggestForResult ==
    /\ pc = "done"
    /\ result.type = "normal"
    /\ overlap' = result.value
    /\ suggestions' = IF result.value.hasOverlap
                      THEN generateSuggestions(result.value, cityA, cityB,
                                               workingHoursA, workingHoursB)
                      ELSE <<>>
    /\ UNCHANGED furtherVars
    /\ pc' = "suggested"
    /\ UNCHANGED <<calculatorVars, largest, directCallVars>>

\* suggester.generateSuggestions(overlap, cityA, cityB, workingHoursA, workingHoursB)
GenerateSuggestions ==
    /\ pc = "generate"
    /\ suggestions' = generateSuggestions(overlap, cityA, cityB,
                                          workingHoursA, workingHoursB)
    /\ UNCHANGED furtherVars
    /\ pc' = "suggested"
    /\ UNCHANGED <<calculatorVars, overlap, largest, directCallVars>>

\* suggester.findLargestOverlap(suggestions)
FindLargestOverlap ==
    /\ pc = "suggested"
    /\ largest' = findLargestOverlap(suggestions)
    /\ UNCHANGED furtherVars
    /\ pc' = "largest"
    /\ UNCHANGED <<calculatorVars, overlap, suggestions, directCallVars>>

SuggesterNext ==
    \/ Calculate
    \/ SuggestForResult
    \/ GenerateSuggestions
    \/ FindLargestOverlap

SuggesterSpec == SuggesterInit /\ [][SuggesterNext]_vars

---------------------------------------------------------------------------
(* Direct calls of categorizeMeetingTime *)

\* zone identifiers handed to the calls: the known zones, UTC, an unknown
\* one, UTC in lower case and the empty string
ZoneArguments == ValidZones \cup {"UTC", "Invalid/Timezone", "utc", ""}

\* the bounds of the working hours categorizeMeetingTime is asked about;
\* it validates none of them
CategorizeHourValues == {0, 9, 10, 12, 18, 24}

\* every 10 minutes of 2024-01-15 (UTC), rendered in UTC or in the zone asked
\* about, and an invalid DateTime
CategorizeTimes(tz) ==
    {at(20160 + 10 * k, zone) :
        k \in 0..MaxTimeSteps, zone \in {"UTC"} \cup ({tz} \cap ValidZones)}
    \cup {InvalidDateTime}

CategorizeInit ==
    /\ callTimezone \in ZoneArguments
    /\ callTime \in CategorizeTimes(callTimezone)
    /\ callWorkingHours \in [start : CategorizeHourValues, end : CategorizeHourValues]
    /\ quality = Pending
    /\ timeInUTC = Pending
    /\ roundTripTime = Pending
    /\ pc = "categorize"
    /\ cityA = Undefined /\ cityB = Undefined
    /\ workingHoursA = Undefined /\ workingHoursB = Undefined
    /\ date = Undefined
    /\ NotCalculated
    /\ NoFurtherCall
    /\ NoSuggesterCall

\* suggester.categorizeMeetingTime(time, workingHours, timezone)
Categorize ==
    /\ pc = "categorize"
    /\ quality' = categorizeMeetingTime(callTime, callWorkingHours, callTimezone)
    /\ UNCHANGED furtherVars
    /\ pc' = "categorized"
    /\ UNCHANGED <<calculatorVars, suggesterVars, callTime, callTimezone,
                   callWorkingHours, timeInUTC, roundTripTime>>

CategorizeNext == Categorize

CategorizeSpec == CategorizeInit /\ [][CategorizeNext]_vars

---------------------------------------------------------------------------
(* Direct calls of the TimeZoneConverter *)

\* 2024-11-02T16:00Z and 2024-03-09T16:00Z: the hours that follow hold the
\* wall-clock times of New York's two transitions in every zone of the model
ConverterAnchors == {441600, 98880}

\* instants a quarter of an hour apart, rendered in any known zone, and an
\* invalid DateTime
ConverterTimes ==
    {at(a + 15 * k, zone) :
        a \in ConverterAnchors, k \in 0..MaxConverterSteps,
        zone \in ValidZones \cup {"UTC"}}
    \cup {InvalidDateTime}

ConverterInit ==
    /\ callTimezone \in ZoneArguments
    /\ callTime \in ConverterTimes
    /\ callWorkingHours = Undefined
    /\ quality = Pending
    /\ timeInUTC = Pending
    /\ roundTripTime = Pending
    /\ pc = "convert"
    /\ cityA = Undefined /\ cityB = Undefined
    /\ workingHoursA = Undefined /\ workingHoursB = Undefined
    /\ date = Undefined
    /\ NotCalculated
    /\ NoFurtherCall
    /\ NoSuggesterCall

\* const timeInUTC = converter.convertToUTC(timeInZone, timezone)
ConvertToUTC ==
    /\ pc = "convert"
    /\ timeInUTC' = convertToUTC(callTime, callTimezone)
    /\ UNCHANGED furtherVars
    /\ pc' = "converted"
    /\ UNCHANGED <<calculatorVars, suggesterVars, callTime, callTimezone,
                   callWorkingHours, quality, roundTripTime>>

\* const roundTripTime = converter.convertFromUTC(timeInUTC, timezone)
ConvertFromUTC ==
    /\ pc = "converted"
    /\ timeInUTC.type = "normal"
    /\ roundTripTime' = convertFromUTC(timeInUTC.value, callTimezone)
    /\ UNCHANGED furtherVars
    /\ pc' = "returned"
    /\ UNCHANGED <<calculatorVars, suggesterVars, callTime, callTimezone,
                   callWorkingHours, quality, timeInUTC>>

\* converter.isValidTimezone(timezone)
IsValidTimezone ==
    /\ pc = "convert"
    /\ zoneValid' = isValidTimezone(callTimezone)
    /\ pc' = "validated"
    /\ UNCHANGED <<calculatorVars, suggesterVars, directCallVars, timeFromUTC,
                   offset, formatted, appVars>>

\* converter.convertFromUTC(time, timezone)
ConvertTimeFromUTC ==
    /\ pc = "convert"
    /\ timeFromUTC' = convertFromUTC(callTime, callTimezone)
    /\ pc' = "fromUTC"
    /\ UNCHANGED <<calculatorVars, suggesterVars, directCallVars, zoneValid,
                   offset, formatted, appVars>>

\* the instants DateTime.now() gives: 2024-01-15T14:00Z or 2024-06-15T00:00Z
NowInstants == {[valid |-> TRUE, time |-> 21000], [valid |-> TRUE, time |-> 239040]}

\* a JS Date for the instant of a DateTime
toJSDate(dt) == [valid |-> dt.valid, time |-> dt.ts]

\* converter.getTimezoneOffset(timezone) and
\* converter.getTimezoneOffset(timezone, date)
GetTimezoneOffset ==
    /\ pc = "convert"
    /\ \E d \in {Undefined, toJSDate(callTime)}, now \in NowInstants :
           offset' = [date |-> d, completion |-> timezoneOffset(callTimezone, d, now)]
    /\ pc' = "offset"
    /\ UNCHANGED <<calculatorVars, suggesterVars, directCallVars, zoneValid,
                   timeFromUTC, formatted, appVars>>

ConverterNext ==
    \/ ConvertToUTC
    \/ ConvertFromUTC
    \/ IsValidTimezone
    \/ ConvertTimeFromUTC
    \/ GetTimezoneOffset

ConverterSpec == ConverterInit /\ [][ConverterNext]_vars

---------------------------------------------------------------------------
(* formatMeetingSuggestion called on one suggestion *)

\* times half an hour apart over 2024-01-15, in two zones with whole-hour
\* offsets and one with a half-hour offset, and an invalid DateTime
FormatTimes ==
    {at(20160 + 30 * k, zone) :
        k \in 0..MaxFormatSteps,
        zone \in {NewYork.timezone, London.timezone, Mumbai.timezone}}
    \cup {InvalidDateTime}

\* the suggestions handed to formatMeetingSuggestion: both times at the same
\* instant, or the second one 15:30 in London
FormatSuggestions ==
    UNION {{[timeInCityA |-> a, timeInCityB |-> b,
             quality |-> PerfectTime, durationMinutes |-> 60] :
               b \in {t \in FormatTimes :
                         \/ ~t.valid
                         \/ a.valid /\ t.valid /\ t.ts = a.ts
                         \/ t = at(21090, London.timezone)}} :
           a \in FormatTimes}

FormatInit ==
    /\ cityA \in {NewYork, Tokyo}
    /\ cityB \in {London, Mumbai}
    /\ suggestions \in {<<s>> : s \in FormatSuggestions}
    /\ overlap = Undefined
    /\ largest = Pending
    /\ pc = "format"
    /\ workingHoursA = Undefined /\ workingHoursB = Undefined
    /\ date = Undefined
    /\ NotCalculated
    /\ NoDirectCall
    /\ NoFurtherCall

\* const formatted = suggester.formatMeetingSuggestion(suggestion, cityA, cityB)
FormatMeetingSuggestion ==
    /\ pc = "format"
    /\ formatted' = formatMeetingSuggestion(suggestions[1], cityA, cityB)
    /\ pc' = "formatted"
    /\ UNCHANGED <<calculatorVars, suggesterVars, directCallVars, checkVars,
                   appVars>>

FormatNext == FormatMeetingSuggestion

FormatSpec == FormatInit /\ [][FormatNext]_vars

---------------------------------------------------------------------------
(* AppContent and its two WorkingHoursInputs *)

EndAfterStart == <<"End", "time", "must", "be", "after", "start", "time">>

InvalidHoursMessage(which) ==
    <<"Invalid", "working", "hours", "for", "City", which, ":">> \o EndAfterStart

DefaultErrorMessage ==
    <<"An", "error", "occurred", "while", "calculating", "overlap", ".",
      "Please", "try", "again", ".">>

\* the local state of a WorkingHoursInput after its effect on [workingHours]
\* has run: start and end taken from the props, the error set iff end <= start
synced(hours) ==
    [startTime |-> hours.start,
     endTime |-> hours.end,
     error |-> IF hours.end <= hours.start THEN EndAfterStart ELSE Null]

\* validateAndEmit calling onChange whatever the two values are
validateAndEmitAlways(newStart, newEnd) ==
    [error |-> IF newEnd <= newStart THEN EndAfterStart ELSE Null,
     onChange |-> <<[start |-> newStart, end |-> newEnd]>>]

\* validateAndEmit(newStart, newEnd): the error it sets and the calls of
\* onChange it makes
validateAndEmit(newStart, newEnd) ==
    IF newEnd <= newStart
    THEN [error |-> EndAfterStart, onChange |-> <<>>]
    ELSE [error |-> Null, onChange |-> <<[start |-> newStart, end |-> newEnd]>>]

\* hours.end > hours.start
validateWorkingHours(hours) == hours.end > hours.start

\* the early returns that leave what an earlier run stored
clearResultsKeeps(prev) == prev

\* setState(prev => ({ ...prev, overlap: null, suggestions: [] }))
clearResults(prev) == [prev EXCEPT !.overlap = Null, !.suggestions = <<>>]

\* message.includes(words) for a phrase of several words
includesWords(message, words) ==
    \E i \in 1..(Len(message) - Len(words) + 1) :
        SubSeq(message, i, i + Len(words) - 1) = words

\* the message the catch block of the effect displays
errorMessage(message) ==
    IF \/ includes(message, "timezone")
       \/ includesWords(message, <<"Unable", "to", "determine">>)
       \/ includes(message, "Invalid")
    THEN message
    ELSE DefaultErrorMessage

\* the calculation effect: what it stores, given what is stored (prev), and
\* the call of calculateOverlap it makes, if any
calculationEffect(cA, cB, hA, hB, d, prev) ==
    IF cA = Null \/ cB = Null
    THEN [state |-> clearResults(prev), call |-> <<>>]
    ELSE IF ~validateWorkingHours(hA)
    THEN [state |-> [clearResults(prev) EXCEPT !.error = InvalidHoursMessage("A")],
          call |-> <<>>]
    ELSE IF ~validateWorkingHours(hB)
    THEN [state |-> [clearResults(prev) EXCEPT !.error = InvalidHoursMessage("B")],
          call |-> <<>>]
    ELSE
    With(calculateOverlap(cA, cB, hA, hB, d), LAMBDA r :
        IF r.completion.type = "normal"
        THEN [state |->
                 [overlap |-> r.completion.value,
                  suggestions |->
                      IF r.completion.value.hasOverlap
                      THEN generateSuggestions(r.completion.value, cA, cB, hA, hB)
                      ELSE <<>>,
                  error |-> Null],
              call |-> <<r>>]
        ELSE [state |->
                 [clearResults([prev EXCEPT !.error = Null])
                     EXCEPT !.error = errorMessage(r.completion.message)],
              call |-> <<r>>])

\* the cities CityInput hands to onCitySelect, one of them with a zone the
\* runtime does not know
AppCities == {NewYork, London, Atlantis}

\* the options of the two selects that are tried (the component offers 0-23)
AppHourOptions == {9, 13, 18}

\* new Date() when AppContent is constructed: 2024-06-15T12:00Z
AppNow == [valid |-> TRUE, time |-> 239760]

\* midnight of today and of the following days, as DateSelector passes them
AppDates == {[valid |-> TRUE, time |-> 239040 + 1440 * k] : k \in 0..MaxDateSteps}

\* calculationsEnabled, which decides whether the WorkingHoursInputs are mounted
calculationsEnabled(cA, cB) == cA # Null /\ cB # Null

\* the local state of a WorkingHoursInput after a render with the given
\* cities: none when unmounted, taken from the props when it mounts
rendered(input, hours, cA, cB) ==
    IF ~calculationsEnabled(cA, cB) THEN Undefined
    ELSE IF input = Undefined THEN synced(hours)
    ELSE input

AppInit ==
    /\ cityA = Null /\ cityB = Null
    /\ workingHoursA = [start |-> 9, end |-> 18]
    /\ workingHoursB = [start |-> 9, end |-> 18]
    /\ date = AppNow
    /\ customHoursEnabled = FALSE
    /\ overlap = Null
    /\ suggestions = <<>>
    /\ largest = Pending
    /\ error = Null
    /\ inputA = Undefined /\ inputB = Undefined
    /\ lastCall = Undefined
    /\ pc = "effect"
    /\ NotCalculated
    /\ NoDirectCall
    /\ zoneValid = Pending /\ timeFromUTC = Pending /\ offset = Pending
    /\ formatted = Pending

\* the useEffect on [cityA, cityB, workingHoursA, workingHoursB, selectedDate]
CalculationEffect ==
    /\ pc = "effect"
    /\ \E e \in {calculationEffect(cityA, cityB, workingHoursA, workingHoursB, date,
                                   [overlap |-> overlap, suggestions |-> suggestions,
                                    error |-> error])} :
           /\ overlap' = e.state.overlap
           /\ suggestions' = e.state.suggestions
           /\ error' = e.state.error
           /\ IF e.call = <<>>
              THEN /\ result' = Pending
                   /\ rangeA' = <<>> /\ rangeB' = <<>>
                   /\ caught' = <<>> /\ conversions' = 0
                   /\ lastCall' = lastCall
              ELSE /\ result' = e.call[1].completion
                   /\ rangeA' = e.call[1].rangeA
                   /\ rangeB' = e.call[1].rangeB
                   /\ caught' = e.call[1].caught
                   /\ conversions' = e.call[1].conversions
                   /\ lastCall' = [cityA |-> cityA, cityB |-> cityB,
                                   workingHoursA |-> workingHoursA,
                                   workingHoursB |-> workingHoursB,
                                   selectedDate |-> date]
    /\ pc' = "idle"
    /\ UNCHANGED <<cityA, cityB, workingHoursA, workingHoursB, date, largest,
                   directCallVars, checkVars, formatted, customHoursEnabled,
                   inputA, inputB>>

\* what no handler of AppContent touches
untouched == <<result, rangeA, rangeB, caught, conversions, largest,
               directCallVars, checkVars, formatted, lastCall>>

\* handleCityASelect(city); selecting the city already selected re-runs the
\* effect only if CityInput hands over another object for it
HandleCityASelect ==
    /\ pc = "idle"
    /\ \E city \in AppCities \cup {Null} :
          /\ cityA' = city
          /\ inputA' = rendered(inputA, workingHoursA, city, cityB)
          /\ inputB' = rendered(inputB, workingHoursB, city, cityB)
          /\ \E rerun \in (IF city = cityA /\ city # Null THEN BOOLEAN ELSE {city # cityA}) :
                pc' = IF rerun THEN "effect" ELSE "idle"
    /\ error' = Null
    /\ UNCHANGED <<cityB, workingHoursA, workingHoursB, date, overlap, suggestions,
                   customHoursEnabled, untouched>>

\* handleCityBSelect(city)
HandleCityBSelect ==
    /\ pc = "idle"
    /\ \E city \in AppCities \cup {Null} :
          /\ cityB' = city
          /\ inputA' = rendered(inputA, workingHoursA, cityA, city)
          /\ inputB' = rendered(inputB, workingHoursB, cityA, city)
          /\ \E rerun \in (IF city = cityB /\ city # Null THEN BOOLEAN ELSE {city # cityB}) :
                pc' = IF rerun THEN "effect" ELSE "idle"
    /\ error' = Null
    /\ UNCHANGED <<cityA, workingHoursA, workingHoursB, date, overlap, suggestions,
                   customHoursEnabled, untouched>>

\* a select of the input of city A changed: the local state is set,
\* validateAndEmit runs and, when it calls onChange, handleWorkingHoursAChange
\* stores the hours and the input takes them over from its props
ChangeA(newStart, newEnd) ==
    \E v \in {validateAndEmit(newStart, newEnd)} :
        IF v.onChange = <<>>
        THEN /\ inputA' = [startTime |-> newStart, endTime |-> newEnd,
                           error |-> v.error]
             /\ pc' = "idle"
             /\ UNCHANGED <<workingHoursA, error>>
        ELSE /\ workingHoursA' = v.onChange[1]
             /\ error' = Null
             /\ inputA' = synced(v.onChange[1])
             /\ pc' = "effect"

\* the same for the input of city B and handleWorkingHoursBChange
ChangeB(newStart, newEnd) ==
    \E v \in {validateAndEmit(newStart, newEnd)} :
        IF v.onChange = <<>>
        THEN /\ inputB' = [startTime |-> newStart, endTime |-> newEnd,
                           error |-> v.error]
             /\ pc' = "idle"
             /\ UNCHANGED <<workingHoursB, error>>
        ELSE /\ workingHoursB' = v.onChange[1]
             /\ error' = Null
             /\ inputB' = synced(v.onChange[1])
             /\ pc' = "effect"

\* handleStartChange of the input of city A (the select is disabled unless
\* customEnabled)
HandleStartChangeA ==
    /\ pc = "idle"
    /\ inputA # Undefined
    /\ customHoursEnabled
    /\ \E newStart \in AppHourOptions \ {inputA.startTime} :
          ChangeA(newStart, inputA.endTime)
    /\ UNCHANGED <<cityA, cityB, workingHoursB, date, overlap, suggestions,
                   customHoursEnabled, inputB, untouched>>

\* handleEndChange of the input of city A
HandleEndChangeA ==
    /\ pc = "idle"
    /\ inputA # Undefined
    /\ customHoursEnabled
    /\ \E newEnd \in AppHourOptions \ {inputA.endTime} :
          ChangeA(inputA.startTime, newEnd)
    /\ UNCHANGED <<cityA, cityB, workingHoursB, date, overlap, suggestions,
                   customHoursEnabled, inputB, untouched>>

\* handleStartChange of the input of city B
HandleStartChangeB ==
    /\ pc = "idle"
    /\ inputB # Undefined
    /\ customHoursEnabled
    /\ \E newStart \in AppHourOptions \ {inputB.startTime} :
          ChangeB(newStart, inputB.endTime)
    /\ UNCHANGED <<cityA, cityB, workingHoursA, date, overlap, suggestions,
                   customHoursEnabled, inputA, untouched>>

\* handleEndChange of the input of city B
HandleEndChangeB ==
    /\ pc = "idle"
    /\ inputB # Undefined
    /\ customHoursEnabled
    /\ \E newEnd \in AppHourOptions \ {inputB.endTime} :
          ChangeB(inputB.startTime, newEnd)
    /\ UNCHANGED <<cityA, cityB, workingHoursA, date, overlap, suggestions,
                   customHoursEnabled, inputA, untouched>>

\* handleCustomHoursToggle(e.target.checked); the checkbox is rendered when
\* both cities are selected.  Disabling stores two new { start: 9, end: 18 }
\* objects, which the inputs take over; enabling keeps the objects.
HandleCustomHoursToggle ==
    /\ pc = "idle"
    /\ calculationsEnabled(cityA, cityB)
    /\ customHoursEnabled' = ~customHoursEnabled
    /\ IF customHoursEnabled
       THEN /\ workingHoursA' = [start |-> 9, end |-> 18]
            /\ workingHoursB' = [start |-> 9, end |-> 18]
            /\ inputA' = synced([start |-> 9, end |-> 18])
            /\ inputB' = synced([start |-> 9, end |-> 18])
            /\ pc' = "effect"
       ELSE /\ UNCHANGED <<workingHoursA, workingHoursB, inputA, inputB>>
            /\ pc' = "idle"
    /\ UNCHANGED <<cityA, cityB, date, overlap, suggestions, error, untouched>>

\* handleDateChange(date), from the Today and Tomorrow buttons
HandleDateChange ==
    /\ pc = "idle"
    /\ date' \in AppDates
    /\ pc' = "effect"
    /\ UNCHANGED <<cityA, cityB, workingHoursA, workingHoursB, overlap, suggestions,
                   customHoursEnabled, error, inputA, inputB, untouched>>

AppNext ==
    \/ CalculationEffect
    \/ HandleCityASelect
    \/ HandleCityBSelect
    \/ HandleStartChangeA
    \/ HandleEndChangeA
    \/ HandleStartChangeB
    \/ HandleEndChangeB
    \/ HandleCustomHoursToggle
    \/ HandleDateChange

AppSpec == AppInit /\ [][AppNext]_vars

---------------------------------------------------------------------------
(* Properties *)

Returned == pc = "done" /\ result.type = "normal"

Threw == pc = "done" /\ result.type = "throw"

\* the working hours the call computes with
hoursA == defaultParameter(workingHoursA)

hoursB == defaultParameter(workingHoursB)

Abs(n) == IF n < 0 THEN -n ELSE n

\* C1: whenever calculateOverlap returns, a result reporting an overlap has
\* overlapInUTC.start < overlapInUTC.end, both local windows with
\* start < end, durationMinutes > 0 and durationMinutes within 1 minute of
\* the UTC difference; a result reporting no overlap carries no other field.
C1_OverlapResultWellFormed ==
    Returned =>
        LET r == result.value
        IN  IF r.hasOverlap
            THEN /\ DOMAIN r = {"hasOverlap", "overlapInUTC", "overlapInCityA",
                                "overlapInCityB", "durationMinutes"}
                 /\ r.overlapInUTC.start.ts < r.overlapInUTC.end.ts
                 /\ r.overlapInCityA.start.ts < r.overlapInCityA.end.ts
                 /\ r.overlapInCityB.start.ts < r.overlapInCityB.end.ts
                 /\ r.durationMinutes > 0
                 /\ Abs(r.durationMinutes
                        - (r.overlapInUTC.end.ts - r.overlapInUTC.start.ts)) < 1
            ELSE DOMAIN r = {"hasOverlap"}

\* an overlap between two different zones on the day New York springs forward
C1_Witness ==
    /\ Returned
    /\ result.value.hasOverlap
    /\ cityA.timezone # cityB.timezone
    /\ date.time = 100080

\* C2: the window is the intersection of rangeA and rangeB: it starts at the
\* later start and ends at the earlier end, and the result is NoOverlap
\* exactly when that start is at or after that end.
C2_WindowIsIntersection ==
    (Returned /\ rangeA # <<>> /\ rangeB # <<>>) =>
        LET start == Max(rangeA[1].start.ts, rangeB[1].start.ts)
            end == Min(rangeA[1].end.ts, rangeB[1].end.ts)
            r == result.value
        IN  /\ ~r.hasOverlap <=> start >= end
            /\ r.hasOverlap =>
                  /\ r.overlapInUTC.start.ts = start
                  /\ r.overlapInUTC.end.ts = end

\* two ranges that only touch: A ends at the instant B starts
C2_Witness ==
    /\ Returned
    /\ rangeA # <<>> /\ rangeB # <<>>
    /\ rangeA[1].start.ts < rangeA[1].end.ts
    /\ rangeA[1].end.ts = rangeB[1].start.ts
    /\ rangeB[1].start.ts < rangeB[1].end.ts
    /\ ~result.value.hasOverlap

\* the date argument new Date('2024-06-15'): the instant 2024-06-15T00:00Z
June15 == [valid |-> TRUE, time |-> 239040]

NineToSix == [start |-> 9, end |-> 18]

\* the wall-clock hour and minute a DateTime shows, as minutes of the day
timeOfDay(dt) == hourOf(dt) * 60 + minuteOf(dt)

\* C3: New York and London, both 9-18, date 2024-06-15 passed as the
\* instant 2024-06-15T00:00Z: an overlap of 240 minutes, 09:00-13:00 in
\* New York and 14:00-18:00 in London.
C3_NewYorkLondonOverlap ==
    (/\ pc = "done"
     /\ cityA = NewYork /\ cityB = London
     /\ workingHoursA = NineToSix /\ workingHoursB = NineToSix
     /\ date = June15) =>
        /\ result.type = "normal"
        /\ result.value.hasOverlap
        /\ result.value.durationMinutes = 240
        /\ timeOfDay(result.value.overlapInCityA.start) = 9 * 60
        /\ timeOfDay(result.value.overlapInCityA.end) = 13 * 60
        /\ timeOfDay(result.value.overlapInCityB.start) = 14 * 60
        /\ timeOfDay(result.value.overlapInCityB.end) = 18 * 60

zoneUsable(city) == city.timezone # "" /\ city.timezone \in ValidZones

MissingZoneError(which) ==
    Throw(<<"Invalid", "city", which, ":", "Missing", "timezone", "information">>)

UnknownZoneError(city) ==
    Throw(<<"Unable", "to", "determine", "timezone", "for", city.name, ".",
            "Please", "try", "another", "city", ".">>)

HoursError(which) == Throw(<<"Invalid", "working", "hours", "for", "City", which>>)

ValidationErrors ==
    {MissingZoneError("A"), MissingZoneError("B"), UnknownZoneError(cityA),
     UnknownZoneError(cityB), HoursError("A"), HoursError("B")}

\* C4: validation fails fast and in order.  A validation error is raised
\* with no conversion entered; an unusable zone always gives a zone error
\* naming a location whose zone is unusable, whatever the working hours; a
\* working-hours error is raised only when both zones are usable; and within
\* each check A is reported ahead of B.
C4_ValidationOrder ==
    pc = "done" =>
        /\ result \in ValidationErrors =>
              /\ conversions = 0
              /\ rangeA = <<>> /\ rangeB = <<>> /\ caught = <<>>
        /\ (~zoneUsable(cityA) \/ ~zoneUsable(cityB)) =>
              \/ result = MissingZoneError("A") /\ cityA.timezone = ""
              \/ result = MissingZoneError("B") /\ cityB.timezone = ""
              \/ result = UnknownZoneError(cityA) /\ ~zoneUsable(cityA)
              \/ result = UnknownZoneError(cityB) /\ ~zoneUsable(cityB)
        /\ result \in {HoursError("A"), HoursError("B")} =>
              zoneUsable(cityA) /\ zoneUsable(cityB)
        /\ result = MissingZoneError("B") => cityA.timezone # ""
        /\ (result = UnknownZoneError(cityB) /\ cityA.name # cityB.name) =>
              zoneUsable(cityA)
        /\ result = HoursError("B") => isValidWorkingHours(hoursA)

\* an unknown zone for A together with malformed hours for A
C4_Witness ==
    /\ pc = "done"
    /\ cityA = Atlantis
    /\ zoneUsable(cityB)
    /\ workingHoursA = [start |-> 9, end |-> 9]
    /\ result = UnknownZoneError(Atlantis)

\* a range the data model calls malformed: a bound outside 0..23, or start = end
Malformed(hours) ==
    \/ hours.start \notin 0..23
    \/ hours.end \notin 0..23
    \/ hours.start = hours.end

\* C5: with usable zones, calculateOverlap raises an 'Invalid working hours'
\* error exactly when a range is malformed (a bound outside 0..23, so end = 24
\* too, or start = end).
C5_RejectsExactlyMalformed ==
    (pc = "done" /\ zoneUsable(cityA) /\ zoneUsable(cityB) /\ date.valid) =>
        /\ result = HoursError("A") <=> Malformed(hoursA)
        /\ result = HoursError("B") <=> (~Malformed(hoursA) /\ Malformed(hoursB))

\* the same instant read in another zone
inZone(dt, timezone) == [dt EXCEPT !.zone = timezone]

\* the civil day of a zone the date argument falls on
anchorDay(timezone) == civilDay([valid |-> TRUE, ts |-> date.time, zone |-> timezone])

\* range runs from hours.start on the anchor day to hours.end on the day after
SpansToNextDay(range, hours, timezone) ==
    /\ range # <<>>
    /\ range[1].start.ts < range[1].end.ts
    /\ localMinutes(inZone(range[1].start, timezone))
          = anchorDay(timezone) * 1440 + hours.start * 60
    /\ localMinutes(inZone(range[1].end, timezone))
          = (anchorDay(timezone) + 1) * 1440 + hours.end * 60

ValidCall ==
    /\ pc = "done"
    /\ zoneUsable(cityA) /\ zoneUsable(cityB)
    /\ isValidWorkingHours(hoursA) /\ isValidWorkingHours(hoursB)
    /\ date.valid

\* C6: a range with end <= start runs from hours.start on the anchor day to
\* hours.end on the following civil day of its zone, start before end, and
\* the call returns a result instead of throwing.
C6_MidnightSpanning ==
    (ValidCall /\ (hoursA.end <= hoursA.start \/ hoursB.end <= hoursB.start)) =>
        /\ result.type = "normal"
        /\ hoursA.end <= hoursA.start => SpansToNextDay(rangeA, hoursA, cityA.timezone)
        /\ hoursB.end <= hoursB.start => SpansToNextDay(rangeB, hoursB, cityB.timezone)

\* London 22-6 against New York 9-18
C6_Witness ==
    /\ Returned
    /\ cityA = London /\ cityB = NewYork
    /\ workingHoursA = [start |-> 22, end |-> 6]
    /\ workingHoursB = NineToSix
    /\ date.valid
    /\ rangeA[1].end.ts - rangeA[1].start.ts = 8 * 60

SameZoneCall ==
    /\ ValidCall
    /\ cityA.timezone = cityB.timezone
    /\ hoursA.start < hoursA.end
    /\ hoursB.start < hoursB.end

\* the result is the local window [max start, min end) for both, and its length
SameZoneWindow ==
    LET start == Max(hoursA.start, hoursB.start)
        end == Min(hoursA.end, hoursB.end)
        midnight == anchorDay(cityA.timezone) * 1440
    IN  /\ result.type = "normal"
        /\ ~result.value.hasOverlap <=> start >= end
        /\ result.value.hasOverlap =>
              /\ result.value.overlapInCityA = result.value.overlapInCityB
              /\ localMinutes(result.value.overlapInCityA.start) = midnight + start * 60
              /\ localMinutes(result.value.overlapInCityA.end) = midnight + end * 60
              /\ result.value.durationMinutes = 60 * (end - start)

\* C7 as stated: in one shared zone with start < end on both sides the
\* window is [max start, min end) and lasts 60 * (min end - max start).
C7_SameZoneAsStated == SameZoneCall => SameZoneWindow

\* the zone keeps one UTC offset from the anchor day's midnight to the next
NoTransitionOnAnchorDay(timezone) ==
    LET midnight == startOfDay(fromJSDateInZone(date, timezone))
    IN  getTimezoneOffset(timezone, midnight.ts)
           = getTimezoneOffset(timezone, plusDays(midnight, 1).ts)

\* C7 amended: the same, on an anchor day without a change of UTC offset.
C7_SameZoneNoTransition ==
    (SameZoneCall /\ NoTransitionOnAnchorDay(cityA.timezone)) => SameZoneWindow

\* 9-18 and 10-17 in one zone: 10:00-17:00, 420 minutes
C7_Witness ==
    /\ Returned
    /\ cityA.timezone = cityB.timezone
    /\ workingHoursA = NineToSix
    /\ workingHoursB = [start |-> 10, end |-> 17]
    /\ NoTransitionOnAnchorDay(cityA.timezone)
    /\ result.value.hasOverlap
    /\ timeOfDay(result.value.overlapInCityB.start) = 10 * 60
    /\ timeOfDay(result.value.overlapInCityB.end) = 17 * 60
    /\ result.value.durationMinutes = 420

\* C8: New York and Tokyo, both 9-18, for an instant of 2024-06-15 (UTC):
\* no overlap.
C8_NewYorkTokyoNoOverlap ==
    (/\ pc = "done"
     /\ cityA = NewYork /\ cityB = Tokyo
     /\ hoursA = NineToSix /\ hoursB = NineToSix
     /\ date.valid
     /\ date.time \in June15.time .. June15.time + 1439) =>
        result = Normal([hasOverlap |-> FALSE])

C8_Witness ==
    /\ pc = "done"
    /\ cityA = NewYork /\ cityB = Tokyo
    /\ workingHoursA = NineToSix /\ workingHoursB = NineToSix
    /\ date = June15
    /\ rangeA # <<>> /\ rangeB # <<>>
    /\ result = Normal([hasOverlap |-> FALSE])

\* an omitted argument written out as { start: 9, end: 18 }
suppliedNineToSix(workingHours) ==
    IF workingHours = Undefined THEN [start |-> 9, end |-> 18] ELSE workingHours

\* C9: a call with working hours omitted ends as the call that supplies
\* { start: 9, end: 18 } for each omitted side.
C9_DefaultWorkingHours ==
    (pc = "done" /\ (workingHoursA = Undefined \/ workingHoursB = Undefined)) =>
        result = calculateOverlap(cityA, cityB, suppliedNineToSix(workingHoursA),
                                  suppliedNineToSix(workingHoursB), date).completion

\* both sides omitted, for two different usable zones, with an overlap found
C9_Witness ==
    /\ Returned
    /\ workingHoursA = Undefined /\ workingHoursB = Undefined
    /\ cityA.timezone # cityB.timezone
    /\ result.value.hasOverlap

GenericError ==
    Throw(<<"Failed", "to", "calculate", "overlap", ".", "Please", "check",
            "your", "inputs", "and", "try", "again", ".">>)

\* the message carries the word, in either capitalisation of its first letter
carries(message, lower, capitalised) ==
    includes(message, lower) \/ includes(message, capitalised)

---------------------------------------------------------------------------
(* Properties of the MeetingSuggester *)

\* generateSuggestions has returned for the overlap argument
Suggested == pc \in {"suggested", "largest"} /\ overlap # Undefined

\* the overlap argument carries an overlap window on both sides
HasWindow ==
    /\ Suggested
    /\ overlap.hasOverlap
    /\ {"overlapInCityA", "overlapInCityB"} \subseteq DOMAIN overlap
    /\ overlap.overlapInCityA.start.ts < overlap.overlapInCityA.end.ts

windowMinutes == overlap.overlapInCityA.end.ts - overlap.overlapInCityA.start.ts

\* C11: on an overlap window there is one suggestion per 30-minute step,
\* the first exactly at overlap.localA.start, each strictly before
\* overlap.localA.end, consecutive ones exactly 30 minutes apart, and
\* ceil(windowMinutes / 30) of them, a final partial step included.
C11_ThirtyMinuteSteps ==
    HasWindow =>
        /\ Len(suggestions) = (windowMinutes + 29) \div 30
        /\ Len(suggestions) >= 1
        /\ suggestions[1].timeInCityA = overlap.overlapInCityA.start
        /\ \A i \in 1..Len(suggestions) :
              suggestions[i].timeInCityA.ts < overlap.overlapInCityA.end.ts
        /\ \A i \in 2..Len(suggestions) :
              suggestions[i].timeInCityA.ts - suggestions[i - 1].timeInCityA.ts = 30

\* a 45-minute window: suggestions at +0 and +30 and no more
C11_Witness ==
    /\ HasWindow
    /\ windowMinutes = 45
    /\ Len(suggestions) = 2
    /\ suggestions[1].timeInCityA.ts = overlap.overlapInCityA.start.ts
    /\ suggestions[2].timeInCityA.ts = overlap.overlapInCityA.start.ts + 30

\* C12: every suggestion's durationMinutes is the smaller of the minutes
\* from its instant to overlap.localA.end and 60; for a 45-minute window the
\* first suggestion lasts at most 45 minutes.
C12_DurationCappedAtSixty ==
    HasWindow =>
        /\ \A i \in 1..Len(suggestions) :
              suggestions[i].durationMinutes
                 = Min(overlap.overlapInCityA.end.ts - suggestions[i].timeInCityA.ts, 60)
        /\ windowMinutes = 45 => suggestions[1].durationMinutes <= 45

\* a 105-minute window: 60, 60, 45 and 15 minutes
C12_Witness ==
    /\ HasWindow
    /\ windowMinutes = 105
    /\ Len(suggestions) = 4
    /\ suggestions[1].durationMinutes = 60
    /\ suggestions[2].durationMinutes = 60
    /\ suggestions[3].durationMinutes = 45
    /\ suggestions[4].durationMinutes = 15

Qualities == {PerfectTime, AcceptableTime, NotRecommendedTime}

\* the worse of two categories under Perfect < Acceptable < NotRecommended
Worse(qualityA, qualityB) ==
    IF qualityA = NotRecommendedTime \/ qualityB = NotRecommendedTime
    THEN NotRecommendedTime
    ELSE IF qualityA = PerfectTime /\ qualityB = PerfectTime
    THEN PerfectTime
    ELSE AcceptableTime

\* the category of a suggestion's instant for location A, and for location B
categoryA(s) == categorizeMeetingTime(s.timeInCityA, workingHoursA, cityA.timezone)

categoryB(s) == categorizeMeetingTime(s.timeInCityB, workingHoursB, cityB.timezone)

\* C13: each suggestion's quality is the worse of the two per-location
\* categories: Perfect only if both are, NotRecommended if either is,
\* Acceptable otherwise; and combining is commutative in A and B.
C13_QualityIsTheWorse ==
    HasWindow =>
        /\ \A i \in 1..Len(suggestions) :
              suggestions[i].quality
                 = Worse(categoryA(suggestions[i]), categoryB(suggestions[i]))
        /\ \A qualityA, qualityB \in Qualities :
              /\ combineQualities(qualityA, qualityB) = combineQualities(qualityB, qualityA)
              /\ combineQualities(qualityA, qualityB) = Worse(qualityA, qualityB)

\* one list with a slot Perfect for A and Acceptable for B, rated Acceptable,
\* and a slot Perfect for A and NotRecommended for B, rated NotRecommended
C13_Witness ==
    /\ HasWindow
    /\ \E i \in 1..Len(suggestions) :
          /\ categoryA(suggestions[i]) = PerfectTime
          /\ categoryB(suggestions[i]) = AcceptableTime
          /\ suggestions[i].quality = AcceptableTime
    /\ \E i \in 1..Len(suggestions) :
          /\ categoryA(suggestions[i]) = PerfectTime
          /\ categoryB(suggestions[i]) = NotRecommendedTime
          /\ suggestions[i].quality = NotRecommendedTime

\* C16: findLargestOverlap returns null on an empty list; on a non-empty
\* list it returns a member whose durationMinutes no member exceeds, and of
\* the members with that durationMinutes the one occurring first.
C16_FindLargestFirstMaximal ==
    pc = "largest" =>
        IF Len(suggestions) = 0 THEN largest = Null
        ELSE \E i \in 1..Len(suggestions) :
                /\ largest = suggestions[i]
                /\ \A j \in 1..Len(suggestions) :
                      suggestions[j].durationMinutes <= largest.durationMinutes
                /\ \A j \in 1..(i - 1) :
                      suggestions[j].durationMinutes < largest.durationMinutes

\* 15, 60, 60: the second of the three is returned, not the third
C16_Witness ==
    /\ pc = "largest"
    /\ Len(suggestions) = 3
    /\ suggestions[1].durationMinutes = 15
    /\ suggestions[2].durationMinutes = 60
    /\ suggestions[3].durationMinutes = 60
    /\ suggestions[2] # suggestions[3]
    /\ largest = suggestions[2]

\* the overlap argument reports no overlap or lacks a local window
NoWindow ==
    \/ ~overlap.hasOverlap
    \/ "overlapInCityA" \notin DOMAIN overlap
    \/ "overlapInCityB" \notin DOMAIN overlap

\* C17: generateSuggestions returns the empty sequence whenever the overlap
\* result reports no overlap or lacks either local window, whatever the
\* cities and the working hours.
C17_NoOverlapNoSuggestions == (Suggested /\ NoWindow) => suggestions = <<>>

\* a direct call with a result that carries both windows but reports no overlap
C17_Witness ==
    /\ Suggested
    /\ result = Pending
    /\ ~overlap.hasOverlap
    /\ {"overlapInCityA", "overlapInCityB"} \subseteq DOMAIN overlap
    /\ suggestions = <<>>

\* both intervals denote the same two instants
sameInstants(intervalA, intervalB) ==
    /\ intervalA.start.ts = intervalB.start.ts
    /\ intervalA.end.ts = intervalB.end.ts

\* C18: in an overlap result the UTC window, the city-A window and the
\* city-B window denote the same two instants, each local window in its
\* city's zone; and in every suggestion generated from that result
\* timeInCityA and timeInCityB denote one instant, in the two cities' zones.
C18_SameInstantBothSides ==
    (pc \in {"done", "suggested", "largest"} /\ result.type = "normal"
        /\ result.value.hasOverlap) =>
        /\ sameInstants(result.value.overlapInUTC, result.value.overlapInCityA)
        /\ sameInstants(result.value.overlapInUTC, result.value.overlapInCityB)
        /\ result.value.overlapInCityA.start.zone = cityA.timezone
        /\ result.value.overlapInCityB.end.zone = cityB.timezone
        /\ pc # "done" =>
              /\ overlap = result.value
              /\ \A i \in 1..Len(suggestions) :
                    /\ suggestions[i].timeInCityA.ts = suggestions[i].timeInCityB.ts
                    /\ suggestions[i].timeInCityA.zone = cityA.timezone
                    /\ suggestions[i].timeInCityB.zone = cityB.timezone

\* suggestions from a calculated overlap between zones with different offsets
C18_Witness ==
    /\ pc = "suggested"
    /\ result.type = "normal"
    /\ result.value.hasOverlap
    /\ Len(suggestions) >= 3
    /\ hourOf(suggestions[3].timeInCityA) # hourOf(suggestions[3].timeInCityB)
    /\ suggestions[3].timeInCityA.ts = suggestions[3].timeInCityB.ts


---------------------------------------------------------------------------
(* Properties of categorizeMeetingTime *)

\* categorizeMeetingTime has returned for a valid instant and a known zone
Categorized ==
    /\ pc = "categorized"
    /\ callTime.valid
    /\ callTimezone \in ValidZones \cup {"UTC"}

\* the minute of the day the instant shows in the zone asked about
minuteOfDay == timeOfDay(inZone(callTime, callTimezone))

\* C14: categorizeMeetingTime returns Not Recommended exactly when the
\* instant's minute of the day in the zone is before hours.start * 60 or at
\* or after hours.end * 60; an instant exactly at hours.start (of a range
\* with start < end) is not Not Recommended, one exactly at hours.end is.
C14_NotRecommendedOutsideHours ==
    Categorized =>
        /\ quality = NotRecommendedTime
              <=> \/ minuteOfDay < callWorkingHours.start * 60
                  \/ minuteOfDay >= callWorkingHours.end * 60
        /\ (/\ callWorkingHours.start < callWorkingHours.end
            /\ minuteOfDay = callWorkingHours.start * 60)
              => quality # NotRecommendedTime
        /\ minuteOfDay = callWorkingHours.end * 60 => quality = NotRecommendedTime

\* 18:00 in New York against 9-18, asked with the instant rendered in UTC
C14_Witness ==
    /\ Categorized
    /\ callTimezone = "America/New_York"
    /\ callTime.zone = "UTC"
    /\ callWorkingHours = [start |-> 9, end |-> 18]
    /\ minuteOfDay = 18 * 60
    /\ quality = NotRecommendedTime

\* the instant lies inside working hours with start < end
InsideWorkingHours ==
    /\ Categorized
    /\ callWorkingHours.start < callWorkingHours.end
    /\ minuteOfDay >= callWorkingHours.start * 60
    /\ minuteOfDay < callWorkingHours.end * 60

\* minutes from the start of the working hours, and their length in minutes
elapsed == minuteOfDay - callWorkingHours.start * 60

span == (callWorkingHours.end - callWorkingHours.start) * 60

\* C15: inside the working hours the category is Perfect exactly when the
\* position p = elapsed / span satisfies 1/3 <= p < 2/3 and Acceptable
\* otherwise; so the exact midpoint is Perfect and the midpoints of the
\* first and of the last third are Acceptable.
C15_PerfectInMiddleThird ==
    InsideWorkingHours =>
        /\ quality = IF 3 * elapsed >= span /\ 3 * elapsed < 2 * span
                     THEN PerfectTime ELSE AcceptableTime
        /\ 2 * elapsed = span => quality = PerfectTime
        /\ 6 * elapsed = span => quality = AcceptableTime
        /\ 6 * elapsed = 5 * span => quality = AcceptableTime

\* 15:00 against 9-18: p is exactly 2/3 and the category Acceptable
C15_Witness ==
    /\ InsideWorkingHours
    /\ callWorkingHours = [start |-> 9, end |-> 18]
    /\ minuteOfDay = 15 * 60
    /\ 3 * elapsed = 2 * span
    /\ quality = AcceptableTime

---------------------------------------------------------------------------
(* Properties of the TimeZoneConverter *)

\* C19: for a valid zone and an instant x rendered in that zone,
\* convertFromUTC(convertToUTC(x, zone), zone) is x: the same instant in the
\* same zone, hence the same wall-clock fields, also for zones with 30- and
\* 45-minute offsets and around daylight-saving transitions.
C19_RoundTrip ==
    (pc = "returned" /\ callTime.zone = callTimezone) =>
        /\ roundTripTime = Normal(callTime)
        /\ localMinutes(roundTripTime.value) = localMinutes(callTime)

\* the second 01:30 of 2024-11-03 in New York (06:30Z) comes back as itself
C19_Witness ==
    /\ pc = "returned"
    /\ callTimezone = "America/New_York"
    /\ callTime = at(442470, "America/New_York")
    /\ timeOfDay(callTime) = 90
    /\ timeInUTC = Normal(at(442470, "UTC"))
    /\ roundTripTime = Normal(callTime)

\* the UTC offsets a zone takes during 2024
ZoneOffsets(zone) == {getTimezoneOffset(zone, 0), getTimezoneOffset(zone, 239040)}

\* the instants at which a zone shows the given wall-clock minutes
occurrences(wallClock, zone) ==
    {u \in {wallClock - o : o \in ZoneOffsets(zone)} :
        localMinutes(at(u, zone)) = wallClock}

\* the DateTimes of any zone that show the wall-clock fields of callTime
sameWallClock ==
    UNION {{at(u, zone) : u \in occurrences(localMinutes(callTime), zone)} :
              zone \in ValidZones \cup {"UTC"}}

\* convertToUTC has returned an instant
Converted == pc \in {"converted", "returned"} /\ timeInUTC.type = "normal"

\* C20 as stated: two inputs with equal wall-clock fields but different
\* attached zones give the same instant for the same zone identifier.
C20_IgnoresAttachedZone ==
    Converted =>
        \A other \in sameWallClock : convertToUTC(other, callTimezone) = timeInUTC

\* the wall-clock time of callTime occurs twice in the zone asked about
Repeated == Cardinality(occurrences(localMinutes(callTime), callTimezone)) > 1

\* C20 amended: the result is an instant at which the zone shows the input's
\* wall-clock fields, whenever there is one; an input already in the zone
\* keeps its own instant; and inputs with equal wall-clock fields but
\* different attached zones give the same instant unless that wall-clock
\* time is repeated in the zone (the hour repeated when daylight time ends).
C20_IgnoresAttachedZoneUnlessRepeated ==
    Converted =>
        /\ timeInUTC.value.zone = "UTC"
        /\ occurrences(localMinutes(callTime), callTimezone) # {} =>
              timeInUTC.value.ts \in occurrences(localMinutes(callTime), callTimezone)
        /\ callTime.zone = callTimezone => timeInUTC.value.ts = callTime.ts
        /\ ~Repeated =>
              \A other \in sameWallClock : convertToUTC(other, callTimezone) = timeInUTC

\* 12:00 attached to Tokyo read as New York time: 16:00Z, as for 12:00
\* attached to UTC, and not the instant the input had
C20_Witness ==
    /\ Converted
    /\ callTimezone = "America/New_York"
    /\ callTime.zone = "Asia/Tokyo"
    /\ ~Repeated
    /\ at(localMinutes(callTime), "UTC") \in sameWallClock
    /\ timeInUTC.value.ts = localMinutes(callTime) + 240
    /\ timeInUTC.value.ts # callTime.ts

\* identifiers luxon resolves to a zone
RecognisedIdentifiers == ValidZones \cup {"UTC", "utc"}

InvalidZoneError(zone) == Throw(<<"Invalid", "timezone", "identifier", ":", zone>>)

InvalidDateTimeError ==
    Throw(<<"Invalid", "DateTime", "object", "provided", "for", "conversion">>)

\* a conversion fails with the zone error exactly for a rejected identifier
\* and, the zone accepted, with the DateTime error for a malformed time
conversionErrors(completion) ==
    /\ completion = InvalidZoneError(callTimezone) <=> ~isValidTimezone(callTimezone)
    /\ (isValidTimezone(callTimezone) /\ ~callTime.valid) =>
          completion = InvalidDateTimeError
    /\ ~isValidTimezone(callTimezone) => completion # InvalidDateTimeError

\* C21: isValidTimezone returns a boolean without throwing, false for the
\* empty string and for unrecognised identifiers; convertToUTC,
\* convertFromUTC and getTimezoneOffset fail with 'Invalid timezone
\* identifier' for exactly the identifiers isValidTimezone rejects; and the
\* two conversions fail with 'Invalid DateTime object' for a malformed time
\* when the zone is valid, the zone being checked first.
C21_ErrorsOfTheConverter ==
    /\ pc = "validated" =>
          /\ zoneValid \in BOOLEAN
          /\ zoneValid = isValidTimezone(callTimezone)
          /\ callTimezone = "" => ~zoneValid
          /\ callTimezone \notin RecognisedIdentifiers => ~zoneValid
    /\ pc = "converted" => conversionErrors(timeInUTC)
    /\ pc = "fromUTC" => conversionErrors(timeFromUTC)
    /\ pc = "offset" =>
          offset.completion = InvalidZoneError(callTimezone)
             <=> ~isValidTimezone(callTimezone)

\* an unknown zone together with a malformed time: the zone error
C21_Witness ==
    /\ pc = "converted"
    /\ callTimezone = "Invalid/Timezone"
    /\ ~callTime.valid
    /\ timeInUTC = InvalidZoneError("Invalid/Timezone")

Digits == {Digit(n) : n \in 0..9}

\* the number two decimal characters spell
numberOf(c1, c2) ==
    10 * (CHOOSE n \in 0..9 : Digit(n) = c1) + (CHOOSE n \in 0..9 : Digit(n) = c2)

\* at position i of the text stands 'hh:mm AM' or 'hh:mm PM' for the time dt
clockAt(text, i, dt) ==
    /\ {text[i], text[i + 1], text[i + 3], text[i + 4]} \subseteq Digits
    /\ numberOf(text[i], text[i + 1]) \in 1..12
    /\ numberOf(text[i], text[i + 1]) % 12 = hourOf(dt) % 12
    /\ text[i + 2] = ":"
    /\ numberOf(text[i + 3], text[i + 4]) = minuteOf(dt)
    /\ text[i + 5] = " "
    /\ text[i + 6] \in {"AM", "PM"}
    /\ text[i + 6] = "AM" <=> hourOf(dt) < 12

Formatted ==
    /\ pc = "formatted"
    /\ suggestions[1].timeInCityA.valid
    /\ suggestions[1].timeInCityB.valid

startDay(range, city) == civilDay(inZone(range[1].start, city.timezone))

\* C24: both working-hour ranges are anchored on the same calendar date: the
\* civil day on which location A's range starts equals the civil day on which
\* location B's range starts, whatever the time of day of the date argument.
C24_SameAnchorDate ==
    (pc = "done" /\ rangeA # <<>> /\ rangeB # <<>>) =>
        startDay(rangeA, cityA) = startDay(rangeB, cityB)

\* suggestions were generated from the result calculateOverlap returned for
\* the same cities and working hours
Pipeline ==
    /\ pc \in {"suggested", "largest"}
    /\ result.type = "normal"
    /\ overlap = result.value

\* the instant shows a time of day inside hours (start < end) in its own zone
insideHours(dt, hours) ==
    /\ timeOfDay(dt) >= hours.start * 60
    /\ timeOfDay(dt) < hours.end * 60

\* C25: with start < end in both locations, every suggestion generated from
\* the result of calculateOverlap for the same zones and hours lies inside
\* both locations' working hours and is never Not Recommended.
C25_SuggestionsInsideWorkingHours ==
    (/\ Pipeline
     /\ workingHoursA.start < workingHoursA.end
     /\ workingHoursB.start < workingHoursB.end) =>
        \A i \in 1..Len(suggestions) :
            /\ insideHours(suggestions[i].timeInCityA, workingHoursA)
            /\ insideHours(suggestions[i].timeInCityB, workingHoursB)
            /\ suggestions[i].quality # NotRecommendedTime

\* 10-17 in New York against 9-18 in London: suggestions every half hour
\* of the shared four hours, none of them Not Recommended
C25_Witness ==
    /\ Pipeline
    /\ cityA = NewYork /\ cityB = London
    /\ workingHoursA = [start |-> 10, end |-> 17]
    /\ workingHoursB = DefaultWorkingHours
    /\ result.value.hasOverlap
    /\ Len(suggestions) = 8
    /\ \A i \in 1..Len(suggestions) : suggestions[i].quality # NotRecommendedTime

\* the working hours run into the next day
spansMidnight(hours) == hours.end <= hours.start

\* C26: categorizeMeetingTime normalises no midnight span: for working hours
\* with end <= start it returns Not Recommended for every instant, so every
\* suggestion generated for a midnight-spanning configuration is Not
\* Recommended although its instant lies inside the overlap window.
C26_MidnightSpanNotRecommended ==
    /\ (Categorized /\ spansMidnight(callWorkingHours)) =>
          quality = NotRecommendedTime
    /\ (HasWindow /\ (spansMidnight(workingHoursA) \/ spansMidnight(workingHoursB))) =>
          \A i \in 1..Len(suggestions) :
              /\ spansMidnight(workingHoursA) =>
                    categoryA(suggestions[i]) = NotRecommendedTime
              /\ spansMidnight(workingHoursB) =>
                    categoryB(suggestions[i]) = NotRecommendedTime
              /\ suggestions[i].quality = NotRecommendedTime
              /\ suggestions[i].timeInCityA.ts >= overlap.overlapInCityA.start.ts
              /\ suggestions[i].timeInCityA.ts < overlap.overlapInCityA.end.ts

\* 22-6 in New York against 10-17 in London: the shared hours are found and
\* every suggestion in them is Not Recommended
C26_Witness ==
    /\ Pipeline
    /\ HasWindow
    /\ cityA = NewYork /\ cityB = London
    /\ workingHoursA = [start |-> 22, end |-> 6]
    /\ workingHoursB = [start |-> 10, end |-> 17]
    /\ Len(suggestions) >= 2
    /\ \A i \in 1..Len(suggestions) : suggestions[i].quality = NotRecommendedTime

\* C27: every suggestion starts inside the overlap window and fits in it:
\* overlap start <= instant < overlap end, 0 < durationMinutes <= 60 and
\* instant + durationMinutes <= overlap end; the suggestions are strictly
\* increasing in time, so no instant occurs twice.
C27_SuggestionsFitTheWindow ==
    HasWindow =>
        /\ \A i \in 1..Len(suggestions) :
              /\ overlap.overlapInCityA.start.ts <= suggestions[i].timeInCityA.ts
              /\ suggestions[i].timeInCityA.ts < overlap.overlapInCityA.end.ts
              /\ suggestions[i].durationMinutes > 0
              /\ suggestions[i].durationMinutes <= 60
              /\ suggestions[i].timeInCityA.ts + suggestions[i].durationMinutes
                    <= overlap.overlapInCityA.end.ts
        /\ \A i, k \in 1..Len(suggestions) :
              i < k => suggestions[i].timeInCityA.ts < suggestions[k].timeInCityA.ts

\* a 75-minute window: three suggestions, the last one filling the final
\* quarter of an hour
C27_Witness ==
    /\ HasWindow
    /\ windowMinutes = 75
    /\ Len(suggestions) = 3
    /\ suggestions[3].durationMinutes = 15
    /\ suggestions[3].timeInCityA.ts + 15 = overlap.overlapInCityA.end.ts

\* findLargestOverlap has returned for a list generateSuggestions produced
LargestOfGenerated == pc = "largest" /\ overlap # Undefined /\ suggestions # <<>>

\* C28: along a non-empty sequence produced by generateSuggestions
\* durationMinutes never increases, so findLargestOverlap returns its first
\* suggestion, the one at the start of the overlap window.
C28_LargestIsTheFirst ==
    LargestOfGenerated =>
        /\ \A i \in 2..Len(suggestions) :
              suggestions[i].durationMinutes <= suggestions[i - 1].durationMinutes
        /\ largest = suggestions[1]
        /\ largest.timeInCityA = overlap.overlapInCityA.start

\* a window of an hour and a half: durations 60, 60 and 30, the first returned
C28_Witness ==
    /\ LargestOfGenerated
    /\ windowMinutes = 90
    /\ Len(suggestions) = 3
    /\ suggestions[2].durationMinutes = 60
    /\ suggestions[3].durationMinutes = 30
    /\ largest = suggestions[1]

\* what the call returns with the two locations exchanged
swapped == calculateOverlap(cityB, cityA, workingHoursB, workingHoursA, date).completion

\* C29: calculateOverlap is symmetric in its two locations: for valid inputs,
\* exchanging (cityA, hoursA) with (cityB, hoursB) yields the same hasOverlap,
\* the same absolute window and the same durationMinutes, with the two local
\* windows exchanged.
C29_Symmetric ==
    ValidCall =>
        /\ result.type = "normal"
        /\ swapped.type = "normal"
        /\ swapped.value.hasOverlap = result.value.hasOverlap
        /\ result.value.hasOverlap =>
              /\ swapped.value.overlapInUTC = result.value.overlapInUTC
              /\ swapped.value.durationMinutes = result.value.durationMinutes
              /\ swapped.value.overlapInCityA = result.value.overlapInCityB
              /\ swapped.value.overlapInCityB = result.value.overlapInCityA

\* two different zones and different working hours with an overlap found
C29_Witness ==
    /\ ValidCall
    /\ cityA = NewYork /\ cityB = London
    /\ hoursA # hoursB
    /\ result.value.hasOverlap
    /\ result.value.overlapInCityA # result.value.overlapInCityB
    /\ swapped.value.overlapInCityA = result.value.overlapInCityB

\* a WorkingHoursInput is mounted and shows an end that is not after its start
showsInvalidHours(input) == input # Undefined /\ input.endTime <= input.startTime

\* C23: invalid working hours always produce a displayed error and never
\* reach the overlap calculation: a WorkingHoursInput showing an end not
\* after its start displays its error and has not passed those hours on, the
\* hours AppContent stores always have end > start, and calculateOverlap is
\* only ever invoked with end > start for both cities.
C23_InvalidHoursNeverCalculated ==
    /\ workingHoursA.end > workingHoursA.start
    /\ workingHoursB.end > workingHoursB.start
    /\ showsInvalidHours(inputA) => inputA.error = EndAfterStart
    /\ showsInvalidHours(inputB) => inputB.error = EndAfterStart
    /\ lastCall # Undefined =>
          /\ lastCall.workingHoursA.end > lastCall.workingHoursA.start
          /\ lastCall.workingHoursB.end > lastCall.workingHoursB.start

\* the start of city A's input moved to 18 while its end is 13: the error
\* is displayed and AppContent still holds 9-13, the last hours calculated with
C23_Witness ==
    /\ pc = "idle"
    /\ inputA # Undefined
    /\ inputA.startTime = 18 /\ inputA.endTime = 13
    /\ inputA.error = EndAfterStart
    /\ workingHoursA = [start |-> 9, end |-> 13]
    /\ lastCall # Undefined
    /\ lastCall.workingHoursA = [start |-> 9, end |-> 13]

\* what calculateOverlap returns for the inputs AppContent holds
current == calculateOverlap(cityA, cityB, workingHoursA, workingHoursB, date).completion

\* C30: once the calculation effect has run for the current inputs, the
\* stored overlap is null and the stored suggestions are empty whenever a
\* city is missing; and with both cities set and the calculation succeeding,
\* the stored overlap is the result for the current inputs and the stored
\* suggestions are generateSuggestions of it for the current cities and
\* hours, whatever city, hours, toggle and date changes came before.
C30_NoStaleResults ==
    pc = "idle" =>
        /\ (cityA = Null \/ cityB = Null) => (overlap = Null /\ suggestions = <<>>)
        /\ (cityA # Null /\ cityB # Null /\ result.type = "normal") =>
              /\ current.type = "normal"
              /\ overlap = current.value
              /\ suggestions = generateSuggestions(overlap, cityA, cityB,
                                                   workingHoursA, workingHoursB)

\* city B was cleared after an overlap with suggestions had been stored for
\* hours other than the default: nothing of it is left
C30_Witness ==
    /\ pc = "idle"
    /\ cityA # Null /\ cityB = Null
    /\ lastCall # Undefined
    /\ lastCall.cityB # Null
    /\ workingHoursA # [start |-> 9, end |-> 18]
    /\ overlap = Null /\ suggestions = <<>>

============================================================================
